---- MODULE Spec2Model ----
(***************************************************************************)
(* Model of the voice playback engine of swc (src/src/voice): the RTP      *)
(* Socket, the PacketStreamer, the PlayerTask supervisor and the Player    *)
(* handle.                                                                 *)
(*                                                                         *)
(* The PacketStreamer and the Socket are records carrying the fields of    *)
(* the Rust structs.  The future returned by PacketStreamer::stream is     *)
(* modelled by its position (the await it is parked on); dropping the      *)
(* future resets the position and keeps the struct fields.                 *)
(*                                                                         *)
(* What the task writes outside itself is recorded: the events sent on     *)
(* event_tx and the Speaking messages in full, the datagrams and the       *)
(* statuses as their last two entries.  When the task ends its struct is   *)
(* dropped: the streamer and the socket return to their initial values.    *)
(*                                                                         *)
(* Spec is the whole player, with each call of the voice websocket         *)
(* Connection as one step.  SpecSocket is Socket::send alone, started      *)
(* from sockets whose counters are about to wrap.  SpecConn is the task    *)
(* with the Connection in full: the handshake, recv with its heartbeats    *)
(* and its inline resume, and send, each await a step, so that a future    *)
(* dropped by the select is dropped at a definite place.  SpecStreamer is  *)
(* the task in its select with the streamer against a clock in             *)
(* milliseconds, the handle's play, pause, resume and stop included.        *)
(* SpecSession is the task in its select taking VoiceServerUpdates with    *)
(* their endpoint and token, conn holding the Session of the Connection.   *)
(* SpecFlag is the task in its select with set_playing taken in its two    *)
(* atomic operations and Player::playing read beside them.  SpecBind is    *)
(* the task in its select with voice_server_update taken in three steps    *)
(* and the ports of the bound UDP sockets in view.                         *)
(* SpecCrypto is Encryptor::encrypt applied to one packet, as bytes, for   *)
(* each mode.  SpecPayload is the decoding of one text of the voice        *)
(* websocket into a GatewayEvent and the encoding of the events sent.      *)
(* The variables of the Connection, of the clock, of the Encryptor and of  *)
(* the decoder stay at their initial values in the specifications that do  *)
(* not use them.                                                           *)
(***************************************************************************)
EXTENDS Integers, Sequences, FiniteSets, TLC

\* ---------------------------------------------------------------- bounds
\* frames a source delivers before its read returns 0
MaxFrames == 1
\* Play commands issued through the handle
MaxPlays == 1
\* messages waiting in the two unbounded channels together
MaxQueue == 1
\* sends of one socket that are dropped while their UDP write is pending
MaxPend == 1
\* connections established by one task (initial connect and reconnects)
MaxGen == 2
\* Socket::send calls made on one socket in the socket specification
MaxSends == 3

\* ------------------------------------------------------ program constants
U16 == 65536
MONO_FRAME_SIZE == 960
SilenceBurst == 5
SILENCE_FRAME == <<248, 255, 254>>

\* ---------------------------------------------------------------- state
VARIABLES
    streamer,       \* PacketStreamer struct
    stream,         \* the live `stream` future: the await it is parked on
    rtp,            \* Socket struct (plus history: generation, send calls)
    wire,           \* the last two datagrams written to UDP, oldest first
    pc,             \* position of the player task
    result,         \* value the task's current phase produced
    vstu, vseu,     \* PlayerTask::new locals
    state,          \* shared PlayerState: playing, ready, voice_state
    receivers,      \* gateway_rx / command_rx still owned by the task
    gateway_rx,     \* queued gateway events
    command_rx,     \* queued commands
    handle_alive,   \* the Player handle (both senders) not yet dropped
    events,         \* events published on event_tx
    speaking,       \* Speaking messages written to the voice websocket
    statuses,       \* the last two statuses PacketStreamer::stream returned, oldest first
    ended,          \* id of a source whose read returned 0, until Stopped is published
    plays,          \* Play commands issued so far (names the sources)
    ret,            \* the last handle call made after the task's exit, and its outcome
    conn,           \* Connection struct: session, websocket in use, heartbeater
    fut,            \* the live connect / recv / send future of the Connection
    outbox,         \* websockets opened and messages written by the Connection
    out,            \* what the Connection's last call returned
    now,            \* the clock (ms)
    next_packet,    \* PacketStreamer::next_packet (ms)
    burst,          \* what stream did since the streamer last left the streaming state
    encryptor,      \* Encryptor struct: mode, key, the Lite counter
    pkt,            \* the Packet handed to Encryptor::encrypt, and what the call did
    input,          \* the text of a gateway payload
    decoded         \* what the scan and the decoding of `input` returned

streamerVars == <<streamer, stream, statuses, ended>>
socketVars == <<rtp, wire>>
taskVars == <<pc, result, vstu, vseu, state, receivers, events, speaking>>
chanVars == <<gateway_rx, command_rx, handle_alive, plays, ret>>
connVars == <<conn, fut, outbox, out>>
timeVars == <<now, next_packet, burst>>
unitVars == <<encryptor, pkt, input, decoded>>
vars == <<streamerVars, socketVars, taskVars, chanVars, connVars, timeVars, unitVars>>

\* A step of the player seen without the inside of its Connection and without
\* the clock: connect, recv and send are taken by their outcomes, sleeps and
\* timeouts by their completion.
Abstracted == UNCHANGED <<connVars, timeVars, unitVars>>

\* ------------------------------------------------------------- helpers
Last(s) == s[Len(s)]

\* ws::Error: Api carries the close code, Ws whether it is
\* ResetWithoutClosingHandshake
WsError(kind, code) == [kind |-> kind, code |-> code]

\* Session: the endpoint varies, the ids and the token are those of the task
Session(endpoint) ==
    [endpoint |-> endpoint, guild_id |-> "guild", user_id |-> "user",
     session_id |-> "session", token |-> "token"]

\* no Connection yet.  wss numbers the websocket in use and open tells whether
\* it still carries messages; reads, handshake and mode are history: the
\* messages read so far, how far the handshake of the websocket in use got
\* and the mode the Encryptor was built with.
NoConnection ==
    [session |-> Session(0), wss |-> 0, open |-> FALSE, nonce |-> 0,
     handshake |-> "none", reads |-> 0, mode |-> "None"]

\* no Connection call in progress, nothing returned yet
NoFuture ==
    [call |-> "none", at |-> "none", hello |-> FALSE, got_ready |-> FALSE, ready |-> <<>>,
     port |-> 0]
Out(type, err) == [type |-> type, err |-> err]

\* history of the streamer since it last left the streaming state: whether
\* it left by a read that outlasted the patience, the silence and audio
\* datagrams written and the Stopped statuses returned while waiting, and
\* the clock at the last silence datagram of a stall still under way
NoBurst == [stall |-> FALSE, silence |-> 0, audio |-> 0, stopped |-> 0, last |-> 0]

\* no Encryptor::encrypt call, no payload to decode
UnusedCrypto ==
    /\ encryptor = [mode |-> "None", key |-> 0, next_nonce |-> 0, calls |-> 0]
    /\ pkt = [pkt |-> <<>>, payload_len |-> 0, plain |-> <<>>, nonce |-> <<>>, result |-> "none"]
UnusedPayload ==
    /\ input = <<>>
    /\ decoded = [at |-> "none"]
Unused == UnusedCrypto /\ UnusedPayload

\* the Connection and the clock as Spec and SpecSocket leave them
Unobserved ==
    /\ conn = NoConnection
    /\ fut = NoFuture
    /\ outbox = <<>>
    /\ out = Out("none", WsError("none", 0))
    /\ now = 0
    /\ next_packet = 0
    /\ burst = NoBurst
    /\ Unused

\* a history kept as its last two entries
Push(s, x) == IF Len(s) < 2 THEN Append(s, x) ELSE <<s[2], x>>

NoSource == [id |-> 0, left |-> 0]

\* A u32 is kept as its two 16-bit halves, so that arithmetic modulo 2^32 stays
\* within the integers TLC evaluates.
W32(n) == [hi |-> n \div U16, lo |-> n % U16]

\* u32::overflowing_add(k).0, for k < 2^16
Add32(w, k) == [hi |-> (w.hi + (w.lo + k) \div U16) % U16, lo |-> (w.lo + k) % U16]

\* (n * k) mod 2^32, for n < 2^31 and k < 2^15
Mul32(n, k) ==
    [hi |-> ((n \div U16) * k + ((n % U16) * k) \div U16) % U16, lo |-> ((n % U16) * k) % U16]

\* u16::to_be_bytes / u32::to_be_bytes
BE16(n) == <<n \div 256, n % 256>>
BE32(w) == BE16(w.hi) \o BE16(w.lo)

\* u16::from_be_bytes / u32::from_be_bytes, as a receiver reads the header
FromBE16(b) == b[1] * 256 + b[2]
FromBE32(b) == [hi |-> b[1] * 256 + b[2], lo |-> b[3] * 256 + b[4]]

\* the ssrc the voice server's Ready names for the gen-th connection
SSRC(gen) == [hi |-> 256 + gen, lo |-> 512 + gen]

\* ------------------------------------------------------------ RTP packet
\* Packet::default(): a zeroed 1460-byte buffer with the two flag bytes set.
\* hdr is the 12-byte RTP header, payload the payload_len bytes after the tag,
\* enc the number of times Encryptor::encrypt sealed the payload in place.
Packet_default ==
    [hdr |-> <<128, 120>> \o BE16(0) \o BE32(W32(0)) \o BE32(W32(0)), payload |-> <<>>, enc |-> 0]

\* Packet::set_sequence / set_timestamp / set_ssrc
set_sequence(p, n) == [p EXCEPT !.hdr = SubSeq(p.hdr, 1, 2) \o BE16(n) \o SubSeq(p.hdr, 5, 12)]
set_timestamp(p, n) == [p EXCEPT !.hdr = SubSeq(p.hdr, 1, 4) \o BE32(n) \o SubSeq(p.hdr, 9, 12)]
set_ssrc(p, n) == [p EXCEPT !.hdr = SubSeq(p.hdr, 1, 8) \o BE32(n)]

\* what a receiver reads back from a datagram's header
SeqOf(d) == FromBE16(SubSeq(d.hdr, 3, 4))
TsOf(d) == FromBE32(SubSeq(d.hdr, 5, 8))
SsrcOf(d) == FromBE32(SubSeq(d.hdr, 9, 12))

\* ------------------------------------------------------------ RTP socket
\* Socket::new.  gen, calls and sent are history: which connection built the
\* socket, how many send calls it has seen and how many of them completed.
\* port is the local port its UdpSocket is bound to (0 where a specification
\* does not observe it).
Socket_new(ssrc, gen) ==
    [sequence |-> 0, timestamp |-> W32(0), ssrc |-> ssrc, gen |-> gen, calls |-> 0, sent |-> 0,
     port |-> 0]

\* the counters a socket holds after n sends (n calls of NextCounters)
SocketAfter(n, ssrc, gen) ==
    [sequence |-> n % U16, timestamp |-> Mul32(n, MONO_FRAME_SIZE),
     ssrc |-> ssrc, gen |-> gen, calls |-> n, sent |-> n, port |-> 0]

\* the counters advanced without wrapping
NextCounters_unwrapped(s) ==
    [s EXCEPT !.sequence = s.sequence + 1,
              !.timestamp = [hi |-> s.timestamp.hi, lo |-> s.timestamp.lo + MONO_FRAME_SIZE],
              !.calls = s.calls + 1]

\* Socket::send, "update metadata for next packet"
NextCounters(s) ==
    [s EXCEPT !.sequence = (s.sequence + 1) % U16,
              !.timestamp = Add32(s.timestamp, MONO_FRAME_SIZE),
              !.calls = s.calls + 1]

\* udp.send returned Ok
Sent(s) == [s EXCEPT !.sent = s.sent + 1]

\* Socket::send, "set packet metadata"
Stamp(s, p) == set_ssrc(set_timestamp(set_sequence(p, s.sequence), s.timestamp), s.ssrc)

\* Encryptor::encrypt seals the payload in place, whatever it holds
Encrypt(p) == [p EXCEPT !.enc = p.enc + 1]

\* the counters left for a completed write to advance
Socket_send_counters_kept(s, p) ==
    [rtp |-> [s EXCEPT !.calls = s.calls + 1], packet |-> Encrypt(Stamp(s, p))]

\* Socket::send up to udp.send: the socket and the caller's packet as they are
\* when the UDP write is awaited
Socket_send(s, p) == [rtp |-> NextCounters(s), packet |-> Encrypt(Stamp(s, p))]

\* the datagram udp.send writes: the packet and the send call that wrote it
Datagram(s, p) == [hdr |-> p.hdr, payload |-> p.payload, enc |-> p.enc,
                   gen |-> s.gen, call |-> s.calls]

\* ------------------------------------------------------- packet streamer
\* PacketStreamer::new
PacketStreamer_new ==
    [source |-> NoSource, waiting_for_source |-> TRUE, packet |-> Packet_default,
     ready |-> FALSE, silence_frames |-> 0]

\* the burst scheduled whatever the state
wait_for_source_unguarded(s) ==
    [s EXCEPT !.waiting_for_source = TRUE,
              !.silence_frames = s.silence_frames + SilenceBurst]

\* one silence frame scheduled on leaving the streaming state
wait_for_source_short(s) ==
    IF ~s.waiting_for_source
    THEN [s EXCEPT !.waiting_for_source = TRUE,
                   !.silence_frames = s.silence_frames + 1]
    ELSE s

\* the burst scheduled and the flag left as it was
wait_for_source_flag_kept(s) ==
    IF ~s.waiting_for_source
    THEN [s EXCEPT !.silence_frames = s.silence_frames + SilenceBurst]
    ELSE s

\* PacketStreamer::wait_for_source
wait_for_source(s) ==
    IF ~s.waiting_for_source
    THEN [s EXCEPT !.waiting_for_source = TRUE,
                   !.silence_frames = s.silence_frames + SilenceBurst]
    ELSE s

\* PacketStreamer::source
source(s, src) == [wait_for_source(s) EXCEPT !.source = src]

\* PacketStreamer::take_source (the streamer it leaves; the caller gets s.source)
take_source(s) == [wait_for_source(s) EXCEPT !.source = NoSource]

\* PacketStreamer::has_source
has_source(s) == s.source # NoSource

\* PacketStreamer::is_streaming
is_streaming(s) == ~s.waiting_for_source

\* the Opus frame a source read encodes into the payload area
FrameOf(src) == <<src.id, src.left>>

\* the stream future parked on an await; end_wait and src are the locals that
\* next_from_source holds across source.close().await
Parked(at) == [at |-> at, end_wait |-> FALSE, src |-> 0]
Top == Parked("top")
NoResult == [type |-> "none", ssrc |-> W32(0), err |-> "none"]
Status(t, ssrc) == [type |-> t, ssrc |-> ssrc, err |-> "none"]
Err(e) == [type |-> "Err", ssrc |-> W32(0), err |-> e]

\* ---------------------------------------------------------------- stream
\* The supervisor's select is biased: the stream branch is polled only when
\* the websocket, gateway and command branches are all pending.
StreamPolled ==
    /\ pc = "run"
    /\ handle_alive
    /\ gateway_rx = <<>>
    /\ command_rx = <<>>

\* stream returns Ok(status): the select branch takes it
Return(st) ==
    /\ statuses' = Push(statuses, st.type)
    /\ result' = st
    /\ pc' = "status"
    /\ stream' = Top

\* stream returns Err(e): run_inner returns it
ReturnErr(e) ==
    /\ result' = Err(e)
    /\ pc' = "returned"
    /\ stream' = Top
    /\ UNCHANGED statuses

\* stream: `if self.ready { sleep_until(self.next_packet).await`
stream_sleep ==
    /\ StreamPolled
    /\ stream.at = "top"
    /\ streamer.ready
    /\ stream' = Parked("sleep")
    /\ UNCHANGED <<streamer, statuses, ended, socketVars, taskVars, chanVars>>

\* Socket::send up to udp.send: stamp the header, advance the counters, encrypt
SendBegin ==
    /\ StreamPolled
    /\ stream.at = "sleep"

\* the packet replaced after a send and still marked ready
AfterSend_still_ready(s) == [s EXCEPT !.packet = Packet_default]

\* the packet after a completed send: `self.packet = Packet::default(); self.ready = false`
AfterSend(s) == [s EXCEPT !.packet = Packet_default, !.ready = FALSE]

\* the deadline passes, the send runs and the UDP write completes at once
stream_send ==
    /\ SendBegin
    /\ rtp' = Sent(Socket_send(rtp, streamer.packet).rtp)
    /\ wire' = Push(wire, Datagram(rtp', Socket_send(rtp, streamer.packet).packet))
    /\ streamer' = AfterSend(streamer)
    /\ stream' = Top
    /\ UNCHANGED <<statuses, ended, taskVars, chanVars>>

\* the deadline passes, the send runs and the UDP write is not ready yet
stream_send_pending ==
    /\ SendBegin
    /\ rtp.calls - rtp.sent < MaxPend
    /\ rtp' = Socket_send(rtp, streamer.packet).rtp
    /\ streamer' = [streamer EXCEPT !.packet = Socket_send(rtp, streamer.packet).packet]
    /\ stream' = Parked("udp")
    /\ UNCHANGED <<wire, statuses, ended, taskVars, chanVars>>

\* encryptor.encrypt fails: `.map_err(Error::Encrypt)?`
stream_send_encrypt_err ==
    /\ SendBegin
    /\ rtp' = Socket_send(rtp, streamer.packet).rtp
    /\ streamer' = [streamer EXCEPT !.packet = Stamp(rtp, streamer.packet)]
    /\ ReturnErr("Rtp")
    /\ UNCHANGED <<wire, ended, vstu, vseu, state, receivers, events, speaking, chanVars>>

\* udp.send fails at once: `.map_err(Error::Io)?`
stream_send_io_err ==
    /\ SendBegin
    /\ rtp' = Socket_send(rtp, streamer.packet).rtp
    /\ streamer' = [streamer EXCEPT !.packet = Socket_send(rtp, streamer.packet).packet]
    /\ ReturnErr("Rtp")
    /\ UNCHANGED <<wire, ended, vstu, vseu, state, receivers, events, speaking, chanVars>>

\* the pending UDP write completes
udp_sent ==
    /\ StreamPolled
    /\ stream.at = "udp"
    /\ rtp' = Sent(rtp)
    /\ wire' = Push(wire, Datagram(rtp, streamer.packet))
    /\ streamer' = AfterSend(streamer)
    /\ stream' = Top
    /\ UNCHANGED <<statuses, ended, taskVars, chanVars>>

\* the pending UDP write fails
udp_io_err ==
    /\ StreamPolled
    /\ stream.at = "udp"
    /\ ReturnErr("Rtp")
    /\ UNCHANGED <<streamer, ended, socketVars, vstu, vseu, state, receivers, events, speaking, chanVars>>

\* PacketStreamer::next, `if self.silence_frames > 0`
NextSilence(s) ==
    [s EXCEPT !.silence_frames = s.silence_frames - 1,
              !.packet.payload = SILENCE_FRAME,
              !.ready = TRUE]

next_silence ==
    /\ StreamPolled
    /\ stream.at = "top"
    /\ ~streamer.ready
    /\ streamer.silence_frames > 0
    /\ streamer' = NextSilence(streamer)
    /\ IF streamer'.silence_frames = 0 /\ streamer'.waiting_for_source
       THEN /\ Return(Status("Stopped", rtp.ssrc))
            /\ UNCHANGED <<ended, socketVars, vstu, vseu, state, receivers, events, speaking, chanVars>>
       ELSE UNCHANGED <<stream, statuses, ended, socketVars, taskVars, chanVars>>

\* PacketStreamer::next_from_source up to its first await: pending() without a
\* source, source.read (under timeout_at when not waiting) with one
next_from_source ==
    /\ StreamPolled
    /\ stream.at = "top"
    /\ ~streamer.ready
    /\ streamer.silence_frames = 0
    /\ stream' = IF has_source(streamer) THEN Parked("read") ELSE Parked("pending")
    /\ UNCHANGED <<streamer, statuses, ended, socketVars, taskVars, chanVars>>

\* Started returned without leaving the waiting state
EndWait_still_waiting(s, end_wait) == s

\* next_from_source after the read: `if end_wait { ... Started }`
EndWait(s, end_wait) ==
    IF end_wait THEN [s EXCEPT !.waiting_for_source = FALSE] ELSE s

\* `if len > 0 { set_payload_len(len); self.ready = true }`
ReadFrame(s) ==
    [s EXCEPT !.packet.payload = FrameOf(s.source),
              !.ready = TRUE,
              !.source.left = s.source.left - 1]

\* source.read returns a frame
read_frame ==
    /\ StreamPolled
    /\ stream.at = "read"
    /\ streamer.source.left > 0
    /\ streamer' = EndWait(ReadFrame(streamer), streamer.waiting_for_source)
    /\ IF streamer.waiting_for_source
       THEN /\ Return(Status("Started", rtp.ssrc))
            /\ UNCHANGED <<ended, socketVars, vstu, vseu, state, receivers, events, speaking, chanVars>>
       ELSE /\ stream' = Top
            /\ UNCHANGED <<statuses, ended, socketVars, taskVars, chanVars>>

\* source.read returns 0: `self.take_source().unwrap().close().await`
read_eof ==
    /\ StreamPolled
    /\ stream.at = "read"
    /\ streamer.source.left = 0
    /\ streamer' = take_source(streamer)
    /\ stream' = [at |-> "close", end_wait |-> streamer.waiting_for_source,
                  src |-> streamer.source.id]
    /\ ended' = streamer.source.id
    /\ UNCHANGED <<statuses, socketVars, taskVars, chanVars>>

\* timeout_at(next_packet + patience, read) elapses: wait_for_source, Ok(None)
read_timeout ==
    /\ StreamPolled
    /\ stream.at = "read"
    /\ ~streamer.waiting_for_source
    /\ streamer' = wait_for_source(streamer)
    /\ stream' = Top
    /\ UNCHANGED <<statuses, ended, socketVars, taskVars, chanVars>>

\* source.read fails
read_err ==
    /\ StreamPolled
    /\ stream.at = "read"
    /\ ReturnErr("Audio")
    /\ UNCHANGED <<streamer, ended, socketVars, vstu, vseu, state, receivers, events, speaking, chanVars>>

\* close() of the ended source completes: `self.wait_for_source(); if end_wait ...`
close_done ==
    /\ StreamPolled
    /\ stream.at = "close"
    /\ streamer' = EndWait(wait_for_source(streamer), stream.end_wait)
    /\ IF stream.end_wait
       THEN /\ Return(Status("Started", rtp.ssrc))
            /\ UNCHANGED <<ended, socketVars, vstu, vseu, state, receivers, events, speaking, chanVars>>
       ELSE /\ stream' = Top
            /\ UNCHANGED <<statuses, ended, socketVars, taskVars, chanVars>>

\* close() of the ended source fails: `.close().await?`
close_err ==
    /\ StreamPolled
    /\ stream.at = "close"
    /\ ReturnErr("Audio")
    /\ UNCHANGED <<streamer, ended, socketVars, vstu, vseu, state, receivers, events, speaking, chanVars>>

Stream ==
    \/ stream_sleep /\ Abstracted
    \/ stream_send /\ Abstracted
    \/ stream_send_pending /\ Abstracted
    \/ stream_send_encrypt_err /\ Abstracted
    \/ stream_send_io_err /\ Abstracted
    \/ udp_sent /\ Abstracted
    \/ udp_io_err /\ Abstracted
    \/ next_silence /\ Abstracted
    \/ next_from_source /\ Abstracted
    \/ read_frame /\ Abstracted
    \/ read_eof /\ Abstracted
    \/ read_timeout /\ Abstracted
    \/ read_err /\ Abstracted
    \/ close_done /\ Abstracted
    \/ close_err /\ Abstracted

\* ------------------------------------------------------- gateway events
\* a VoiceServerUpdate carrying a token and naming an endpoint, or none
\* (endpoint 0: `endpoint: Option<String>` is None)
ServerUpdate(endpoint, token) ==
    [type |-> "VoiceServerUpdate", own |-> FALSE, channel |-> FALSE,
     endpoint |-> endpoint, token |-> token]

VoiceServerUpdate == ServerUpdate(1, "token")

\* a VoiceStateUpdate: for the player's own user or another, in a channel or not
VoiceStateUpdate(own, channel) ==
    [type |-> "VoiceStateUpdate", own |-> own, channel |-> channel,
     endpoint |-> 0, token |-> ""]

NoEvent == [type |-> "none", own |-> FALSE, channel |-> FALSE, endpoint |-> 0, token |-> ""]

Event(kind) == [kind |-> kind, err |-> "none"]
ErrorEvent(e) == [kind |-> "Error", err |-> e]

Speaking(flag, ssrc, gen) == [speaking |-> flag, ssrc |-> ssrc, gen |-> gen]

\* the task ends with its receivers left open
TaskEnds_receivers_open ==
    /\ pc' = "done"
    /\ streamer' = PacketStreamer_new
    /\ stream' = Top
    /\ rtp' = Socket_new(W32(0), 0)
    /\ UNCHANGED <<receivers, gateway_rx, command_rx>>

\* the task ends: the PlayerTask is dropped, and with it the streamer, the
\* socket and both receivers
TaskEnds ==
    /\ pc' = "done"
    /\ streamer' = PacketStreamer_new
    /\ stream' = Top
    /\ rtp' = Socket_new(W32(0), 0)
    /\ receivers' = FALSE
    /\ gateway_rx' = <<>>
    /\ command_rx' = <<>>

\* ------------------------------------------------------- PlayerTask::new
\* `while let Ok(Some(ev)) = timeout_at(deadline, gateway_rx.recv())`
new_recv ==
    /\ pc = "init"
    /\ gateway_rx # <<>>
    /\ LET ev == Head(gateway_rx)
           vstu1 == IF ev.type = "VoiceStateUpdate" /\ ev.own THEN ev ELSE vstu
           vseu1 == IF ev.type = "VoiceServerUpdate" THEN ev ELSE vseu
       IN /\ gateway_rx' = Tail(gateway_rx)
          /\ vstu' = vstu1
          /\ vseu' = vseu1
          /\ IF vstu1 # NoEvent /\ vseu1 # NoEvent
             THEN /\ pc' = "connect"
                  /\ state' = [state EXCEPT !.voice_state = [own |-> vstu1.own, channel |-> vstu1.channel]]
             ELSE UNCHANGED <<pc, state>>
    /\ UNCHANGED <<streamerVars, socketVars, result, receivers, events, speaking,
                   command_rx, handle_alive, plays, ret>>

\* the 5 s deadline passes (or every sender is gone) before both updates came:
\* `return Err(Error::CannotJoin)`, which Player::new's task only logs
new_cannot_join ==
    /\ pc = "init"
    /\ result' = [type |-> "InitErr", ssrc |-> W32(0), err |-> "CannotJoin"]
    /\ vstu' = NoEvent
    /\ vseu' = NoEvent
    /\ TaskEnds
    /\ UNCHANGED <<statuses, ended, wire, state, events, speaking,
                   handle_alive, plays, ret>>

\* Connection::connect succeeds before the deadline
new_connected ==
    /\ pc = "connect"
    /\ rtp' = Socket_new(SSRC(1), 1)
    /\ vstu' = NoEvent
    /\ vseu' = NoEvent
    /\ state' = [state EXCEPT !.ready = TRUE]
    /\ events' = Append(events, Event("Ready"))
    /\ pc' = "run"
    /\ UNCHANGED <<streamerVars, wire, result, receivers, speaking, chanVars>>

\* Connection::connect does not finish by the deadline (Timeout) or fails (Ws)
new_connect_err ==
    /\ pc = "connect"
    /\ \E e \in {"Timeout", "Ws"} : result' = [type |-> "InitErr", ssrc |-> W32(0), err |-> e]
    /\ vstu' = NoEvent
    /\ vseu' = NoEvent
    /\ TaskEnds
    /\ UNCHANGED <<statuses, ended, wire, state, events, speaking,
                   handle_alive, plays, ret>>

\* ---------------------------------------------------------- set_playing
\* `if self.state.playing.fetch_xor(playing, ..)`: fetch_xor returns the
\* previous value; the flag ends as `playing` on both paths
set_playing_events(prev, playing) ==
    IF prev
    THEN <<Event(IF playing THEN "Playing" ELSE "Stopped")>>
    ELSE <<>>

set_playing_flag(prev, playing) ==
    IF prev THEN playing ELSE (prev # playing)

\* ---------------------------------------- PlayerTask::voice_server_update
\* the new Connection made, and no Speaking written after it
ServerUpdateOk_silent(ssrc, back) ==
    /\ rtp' = Socket_new(ssrc, rtp.gen + 1)
    /\ pc' = back
    /\ UNCHANGED <<result, speaking>>

\* connect with the new endpoint and token; `if self.streamer.is_streaming()`
\* send Speaking=1 with the new ssrc
ServerUpdateOk(ssrc, back) ==
    /\ rtp' = Socket_new(ssrc, rtp.gen + 1)
    /\ speaking' = IF is_streaming(streamer)
                   THEN Append(speaking, Speaking(1, ssrc, rtp.gen + 1))
                   ELSE speaking
    /\ pc' = back
    /\ UNCHANGED result

\* the branch of the select (or the loop of wait_for_gateway / reconnect) ends
\* run_inner with Err(e)
Fails(e) ==
    /\ result' = Err(e)
    /\ pc' = "returned"

\* connect times out or fails, or the Speaking write fails after a connect
ServerUpdateErr ==
    \/ /\ \E e \in {"Timeout", "Ws"} : Fails(e)
       /\ UNCHANGED <<rtp, speaking>>
    \/ /\ is_streaming(streamer)
       /\ rtp' = Socket_new(SSRC(rtp.gen + 1), rtp.gen + 1)
       /\ Fails("Ws")
       /\ UNCHANGED speaking

\* `endpoint: vseu.endpoint.unwrap()` panics on an update without endpoint
\* (endpoint 0 stands for None) before anything is connected or written
ServerUpdatePanics ==
    /\ pc' = "panicked"
    /\ UNCHANGED <<rtp, speaking, result>>

voice_server_update(ev, back) ==
    IF ev.endpoint = 0
    THEN ServerUpdatePanics
    ELSE \/ ServerUpdateOk(SSRC(rtp.gen + 1), back)
         \/ ServerUpdateErr

\* ------------------------------------------------ run_inner: the select
\* Every branch but the stream branch drops the stream future it raced with.

\* ws.recv() yields an event, which is logged and discarded
ws_event ==
    /\ pc = "run"
    /\ stream' = Top
    /\ UNCHANGED <<streamer, statuses, ended, socketVars, taskVars, chanVars>>

\* ws.recv() yields a close with code 4014: wait_for_gateway
ws_disconnected ==
    /\ pc = "run"
    /\ stream' = Top
    /\ pc' = "wait_for_gateway"
    /\ UNCHANGED <<streamer, statuses, ended, socketVars, result, vstu, vseu, state,
                   receivers, events, speaking, chanVars>>

\* ws.recv() yields an error that can_resume(): reconnect, which gives up at
\* once when the voice state has no channel
ws_resumable ==
    /\ pc = "run"
    /\ stream' = Top
    /\ IF state.voice_state.channel
       THEN pc' = "reconnect" /\ UNCHANGED result
       ELSE Fails("Disconnected")
    /\ UNCHANGED <<streamer, statuses, ended, socketVars, vstu, vseu, state,
                   receivers, events, speaking, chanVars>>

\* ws.recv() yields any other error
ws_fatal ==
    /\ pc = "run"
    /\ stream' = Top
    /\ Fails("Ws")
    /\ UNCHANGED <<streamer, statuses, ended, socketVars, vstu, vseu, state,
                   receivers, events, speaking, chanVars>>

\* ws.recv() yields None: `break`, run_inner returns Ok(())
ws_none ==
    /\ pc = "run"
    /\ stream' = Top
    /\ result' = [type |-> "Ok", ssrc |-> W32(0), err |-> "none"]
    /\ pc' = "returned"
    /\ UNCHANGED <<streamer, statuses, ended, socketVars, vstu, vseu, state,
                   receivers, events, speaking, chanVars>>

\* `*self.state.voice_state.write().await = vstu.0`
WriteVoiceState(ev) ==
    state' = [state EXCEPT !.voice_state = [own |-> ev.own, channel |-> ev.channel]]

\* gateway_rx.recv() in the select
gateway_recv ==
    /\ pc = "run"
    /\ gateway_rx # <<>>
    /\ gateway_rx' = Tail(gateway_rx)
    /\ stream' = Top
    /\ LET ev == Head(gateway_rx)
       IN CASE ev.type = "VoiceServerUpdate" ->
                 /\ voice_server_update(ev, "run")
                 /\ UNCHANGED state
            [] ev.type = "VoiceStateUpdate" /\ ev.own ->
                 /\ WriteVoiceState(ev)
                 /\ UNCHANGED <<rtp, speaking, pc, result>>
            [] OTHER -> UNCHANGED <<rtp, speaking, pc, result, state>>
    /\ UNCHANGED <<streamer, statuses, ended, wire, vstu, vseu, receivers, events,
                   command_rx, handle_alive, plays, ret>>

\* gateway_rx.recv() yields None: every sender is gone
gateway_closed ==
    /\ pc = "run"
    /\ ~handle_alive
    /\ gateway_rx = <<>>
    /\ stream' = Top
    /\ Fails("GatewayClosed")
    /\ UNCHANGED <<streamer, statuses, ended, socketVars, vstu, vseu, state,
                   receivers, events, speaking, chanVars>>

\* PlayerTask::close_source when the close succeeds
close_source(s) == take_source(s)

\* Pause taken for Stop
pause_resume_closes(s) == close_source(s)

\* Command::Pause and Command::Resume: both arms are empty
pause_resume(s) == s

\* command_rx.recv() in the select: polled after the gateway branch
command_recv ==
    /\ pc = "run"
    /\ handle_alive
    /\ gateway_rx = <<>>
    /\ command_rx # <<>>
    /\ command_rx' = Tail(command_rx)
    /\ stream' = Top
    /\ ended' = 0
    /\ LET c == Head(command_rx)
       IN CASE c.cmd = "Play" ->
                 \/ /\ streamer' = source(close_source(streamer), [id |-> c.id, left |-> c.frames])
                    /\ UNCHANGED <<pc, result>>
                 \/ /\ has_source(streamer)
                    /\ streamer' = take_source(streamer)
                    /\ Fails("Audio")
            [] c.cmd = "Stop" ->
                 \/ /\ streamer' = close_source(streamer)
                    /\ UNCHANGED <<pc, result>>
                 \/ /\ has_source(streamer)
                    /\ streamer' = take_source(streamer)
                    /\ Fails("Audio")
            [] OTHER ->
                 /\ streamer' = pause_resume(streamer)
                 /\ UNCHANGED <<pc, result>>
    /\ UNCHANGED <<statuses, socketVars, vstu, vseu, state, receivers, events, speaking,
                   gateway_rx, handle_alive, plays, ret>>

\* Stopped handled without looking at the streamer's source
OnStatus_unconditional(st, s) ==
    IF st.type = "Started"
    THEN [speaking |-> 1, publish |-> TRUE, playing |-> TRUE]
    ELSE [speaking |-> 0, publish |-> TRUE, playing |-> FALSE]

\* the handler of the stream branch: Speaking on the websocket, then set_playing
OnStatus(st, s) ==
    IF st.type = "Started"
    THEN [speaking |-> 1, publish |-> TRUE, playing |-> TRUE]
    ELSE [speaking |-> 0, publish |-> ~has_source(s), playing |-> FALSE]

on_status ==
    /\ pc = "status"
    /\ LET h == OnStatus(result, streamer)
       IN \/ /\ speaking' = Append(speaking, Speaking(h.speaking, result.ssrc, rtp.gen))
             /\ events' = IF h.publish
                          THEN events \o set_playing_events(state.playing, h.playing)
                          ELSE events
             /\ state' = IF h.publish
                         THEN [state EXCEPT !.playing = set_playing_flag(state.playing, h.playing)]
                         ELSE state
             /\ ended' = IF Len(events') > Len(events) /\ Last(events').kind = "Stopped"
                         THEN 0 ELSE ended
             /\ pc' = "run"
             /\ UNCHANGED result
          \/ /\ Fails("Ws")
             /\ UNCHANGED <<speaking, events, state, ended>>
    /\ UNCHANGED <<streamer, stream, statuses, socketVars, vstu, vseu, receivers, chanVars>>

\* ------------------------------------------------------ wait_for_gateway
\* `match timeout_at(deadline, self.gateway_rx.recv()).await`
wait_for_gateway_recv ==
    /\ pc = "wait_for_gateway"
    /\ gateway_rx # <<>>
    /\ gateway_rx' = Tail(gateway_rx)
    /\ LET ev == Head(gateway_rx)
       IN CASE ev.type = "VoiceServerUpdate" ->
                 /\ voice_server_update(ev, "run")
                 /\ UNCHANGED state
            [] ev.type = "VoiceStateUpdate" /\ ev.own ->
                 /\ WriteVoiceState(ev)
                 /\ UNCHANGED <<rtp, speaking, pc, result>>
            [] OTHER -> UNCHANGED <<rtp, speaking, pc, result, state>>
    /\ UNCHANGED <<streamerVars, wire, vstu, vseu, receivers, events,
                   command_rx, handle_alive, plays, ret>>

\* the 5 s deadline passes (Timeout) or every sender is gone (GatewayClosed)
wait_for_gateway_err ==
    /\ pc = "wait_for_gateway"
    /\ \/ Fails("Timeout")
       \/ ~handle_alive /\ gateway_rx = <<>> /\ Fails("GatewayClosed")
    /\ UNCHANGED <<streamerVars, socketVars, vstu, vseu, state, receivers, events,
                   speaking, chanVars>>

\* ------------------------------------------------------------- reconnect
\* the loop of reconnect: a VoiceStateUpdate is taken whatever its user
reconnect_recv ==
    /\ pc = "reconnect"
    /\ gateway_rx # <<>>
    /\ gateway_rx' = Tail(gateway_rx)
    /\ LET ev == Head(gateway_rx)
       IN CASE ev.type = "VoiceServerUpdate" ->
                 /\ voice_server_update(ev, "run")
                 /\ UNCHANGED state
            [] ev.type = "VoiceStateUpdate" /\ ~ev.channel ->
                 /\ Fails("Disconnected")
                 /\ UNCHANGED <<rtp, speaking, state>>
            [] OTHER ->
                 /\ WriteVoiceState(ev)
                 /\ UNCHANGED <<rtp, speaking, pc, result>>
    /\ UNCHANGED <<streamerVars, wire, vstu, vseu, receivers, events,
                   command_rx, handle_alive, plays, ret>>

reconnect_err ==
    /\ pc = "reconnect"
    /\ \/ Fails("Timeout")
       \/ ~handle_alive /\ gateway_rx = <<>> /\ Fails("GatewayClosed")
    /\ UNCHANGED <<streamerVars, socketVars, vstu, vseu, state, receivers, events,
                   speaking, chanVars>>

\* ------------------------------------------------------- PlayerTask::run
\* the error published, the source left in the streamer
run_without_close ==
    /\ pc = "returned"
    /\ events' = IF result.type = "Err" THEN Append(events, ErrorEvent(result.err)) ELSE events
    /\ TaskEnds
    /\ UNCHANGED <<statuses, ended, wire, result, vstu, vseu, state, speaking,
                   handle_alive, plays, ret>>

\* after run_inner returned: publish the error, then take the source to close it
run ==
    /\ pc = "returned"
    /\ events' = IF result.type = "Err" THEN Append(events, ErrorEvent(result.err)) ELSE events
    /\ IF has_source(streamer)
       THEN /\ pc' = "closing"
            /\ streamer' = take_source(streamer)
            /\ stream' = [at |-> "top", end_wait |-> FALSE, src |-> streamer.source.id]
            /\ UNCHANGED <<rtp, receivers, gateway_rx, command_rx>>
       ELSE TaskEnds
    /\ UNCHANGED <<statuses, ended, wire, result, vstu, vseu, state, speaking,
                   handle_alive, plays, ret>>

\* source.close() of the cleanup returns (an error is only logged); the task ends
run_closed ==
    /\ pc = "closing"
    /\ TaskEnds
    /\ UNCHANGED <<statuses, ended, wire, result, vstu, vseu, state, events,
                   speaking, handle_alive, plays, ret>>

\* the panic unwinds the spawned task: the PlayerTask is dropped, nothing is
\* published and the source is not closed
unwind ==
    /\ pc = "panicked"
    /\ TaskEnds
    /\ UNCHANGED <<statuses, ended, wire, result, vstu, vseu, state, events,
                   speaking, handle_alive, plays, ret>>

Task ==
    \/ new_recv /\ Abstracted
    \/ new_cannot_join /\ Abstracted
    \/ new_connected /\ Abstracted
    \/ new_connect_err /\ Abstracted
    \/ ws_event /\ Abstracted
    \/ ws_disconnected /\ Abstracted
    \/ ws_resumable /\ Abstracted
    \/ ws_fatal /\ Abstracted
    \/ ws_none /\ Abstracted
    \/ gateway_recv /\ Abstracted
    \/ gateway_closed /\ Abstracted
    \/ command_recv /\ Abstracted
    \/ on_status /\ Abstracted
    \/ wait_for_gateway_recv /\ Abstracted
    \/ wait_for_gateway_err /\ Abstracted
    \/ reconnect_recv /\ Abstracted
    \/ reconnect_err /\ Abstracted
    \/ run /\ Abstracted
    \/ run_closed /\ Abstracted

\* ---------------------------------------------------------- Player handle
\* Player::is_closed: JoinHandle::is_finished
is_closed == pc = "done"

\* ret observes the calls made after the task's exit
Returned(call, r) == IF is_closed THEN [call |-> call, result |-> r] ELSE ret

\* UnboundedSender::send: fails only when the receiver is gone
Send(call, queue, msg) ==
    IF receivers
    THEN /\ Len(gateway_rx) + Len(command_rx) < MaxQueue
         /\ queue' = Append(queue, msg)
         /\ ret' = Returned(call, "Ok")
    ELSE /\ queue' = queue
         /\ ret' = Returned(call, "PlayerClosed")

Command(cmd, id, frames) == [cmd |-> cmd, id |-> id, frames |-> frames]

Player_play ==
    /\ handle_alive
    /\ plays < MaxPlays
    /\ \E n \in 0..MaxFrames : Send("play", command_rx, Command("Play", plays + 1, n))
    /\ plays' = plays + 1
    /\ UNCHANGED <<streamerVars, socketVars, taskVars, gateway_rx, handle_alive>>

Player_pause ==
    /\ handle_alive
    /\ Send("pause", command_rx, Command("Pause", 0, 0))
    /\ UNCHANGED <<streamerVars, socketVars, taskVars, gateway_rx, handle_alive, plays>>

Player_resume ==
    /\ handle_alive
    /\ Send("resume", command_rx, Command("Resume", 0, 0))
    /\ UNCHANGED <<streamerVars, socketVars, taskVars, gateway_rx, handle_alive, plays>>

Player_stop ==
    /\ handle_alive
    /\ Send("stop", command_rx, Command("Stop", 0, 0))
    /\ UNCHANGED <<streamerVars, socketVars, taskVars, gateway_rx, handle_alive, plays>>

Player_voice_state_update ==
    /\ handle_alive
    /\ \E own, channel \in BOOLEAN : Send("voice_state_update", gateway_rx, VoiceStateUpdate(own, channel))
    /\ UNCHANGED <<streamerVars, socketVars, taskVars, command_rx, handle_alive, plays>>

\* Player::voice_server_update forwards the caller's event
Player_voice_server_update_of(updates) ==
    /\ handle_alive
    /\ rtp.gen < MaxGen
    /\ \E ev \in updates : Send("voice_server_update", gateway_rx, ev)
    /\ UNCHANGED <<streamerVars, socketVars, taskVars, command_rx, handle_alive, plays>>

Player_voice_server_update == Player_voice_server_update_of({VoiceServerUpdate})

Player_voice_state ==
    /\ handle_alive
    /\ ret' = Returned("voice_state", IF is_closed THEN "PlayerClosed" ELSE "Ok")
    /\ UNCHANGED <<streamerVars, socketVars, taskVars, gateway_rx, command_rx, handle_alive, plays>>

\* the Player is dropped: both senders go
Player_drop ==
    /\ handle_alive
    /\ handle_alive' = FALSE
    /\ UNCHANGED <<streamerVars, socketVars, taskVars, gateway_rx, command_rx, plays, ret>>

Handle ==
    \/ Player_play /\ Abstracted
    \/ Player_pause /\ Abstracted
    \/ Player_resume /\ Abstracted
    \/ Player_stop /\ Abstracted
    \/ Player_voice_state_update /\ Abstracted
    \/ Player_voice_server_update /\ Abstracted
    \/ Player_voice_state /\ Abstracted
    \/ Player_drop /\ Abstracted

\* ------------------------------------------------------------------ spec
\* Player::new: fresh channels and shared state, the task spawned
Init ==
    /\ streamer = PacketStreamer_new
    /\ stream = Top
    /\ rtp = Socket_new(W32(0), 0)
    /\ wire = <<>>
    /\ pc = "init"
    /\ result = NoResult
    /\ vstu = NoEvent
    /\ vseu = NoEvent
    /\ state = [playing |-> FALSE, ready |-> FALSE,
                voice_state |-> [own |-> TRUE, channel |-> FALSE]]
    /\ receivers = TRUE
    /\ gateway_rx = <<>>
    /\ command_rx = <<>>
    /\ handle_alive = TRUE
    /\ events = <<>>
    /\ speaking = <<>>
    /\ statuses = <<>>
    /\ ended = 0
    /\ plays = 0
    /\ ret = [call |-> "none", result |-> "none"]
    /\ Unobserved

Next == Stream \/ Task \/ Handle

Spec == Init /\ [][Next]_vars

\* ------------------------------------------------ socket specification
\* Socket::send on its own: a connected task whose socket has completed n
\* sends, for n at the start of a socket's life and just before the sequence
\* number and the timestamp wrap; every call is handed a packet with one of
\* two payloads and completes, or fails or is dropped.
\* (65534 sends leave sequence 0xFFFE; 4473923 sends leave timestamp
\* 0xFFFFFB40, two steps of 960 below 2^32)
SocketStarts == {0, 1, 65534, 4473923}

InitSocket ==
    /\ streamer = PacketStreamer_new
    /\ stream = Top
    /\ \E n \in SocketStarts : rtp = SocketAfter(n, SSRC(1), 1)
    /\ wire = <<>>
    /\ pc = "run"
    /\ result = NoResult
    /\ vstu = NoEvent
    /\ vseu = NoEvent
    /\ state = [playing |-> FALSE, ready |-> TRUE,
                voice_state |-> [own |-> TRUE, channel |-> TRUE]]
    /\ receivers = TRUE
    /\ gateway_rx = <<>>
    /\ command_rx = <<>>
    /\ handle_alive = TRUE
    /\ events = <<Event("Ready")>>
    /\ speaking = <<>>
    /\ statuses = <<>>
    /\ ended = 0
    /\ plays = 0
    /\ ret = [call |-> "none", result |-> "none"]
    /\ Unobserved

Payloads == {SILENCE_FRAME, FrameOf([id |-> 1, left |-> 1])}

SendsLeft == \E n \in SocketStarts : n <= rtp.calls /\ rtp.calls < n + MaxSends

\* Socket::send returns Ok: the datagram is written
send_ok ==
    /\ SendsLeft
    /\ \E payload \in Payloads :
          LET sent == Socket_send(rtp, [Packet_default EXCEPT !.payload = payload])
          IN /\ rtp' = Sent(sent.rtp)
             /\ wire' = Push(wire, Datagram(rtp', sent.packet))
    /\ UNCHANGED <<streamerVars, taskVars, chanVars>>

\* Socket::send returns Err from encrypt or from udp.send, or its future is
\* dropped at udp.send: nothing is written
send_fails ==
    /\ SendsLeft
    /\ rtp' = Socket_send(rtp, Packet_default).rtp
    /\ UNCHANGED <<wire, streamerVars, taskVars, chanVars>>

NextSocket ==
    \/ send_ok /\ Abstracted
    \/ send_fails /\ Abstracted

SpecSocket == InitSocket /\ [][NextSocket]_vars

\* ------------------------------------------------------ voice websocket
\* frames the Connection reads from its websockets
MaxReads == 5
\* heartbeats the heartbeater makes due
MaxBeats == 1
\* modes a Ready offers
MaxModes == 2

\* the lists of EncryptionMode a Ready can offer; Other stands for a mode this
\* library does not support
ModeLists == UNION {[1..n -> {"Normal", "Suffix", "Lite", "Other"}] : n \in 0..MaxModes}

\* Error::disconnected
disconnected(err) == err.kind = "Api" /\ err.code = 4014

\* Error::can_resume
can_resume(err) ==
    \/ err.kind = "Api" /\ err.code = 4015
    \/ err.kind = "Ws" /\ err.code = 1

\* Code::from_code (0 for None)
from_code(code) ==
    IF code \in {4001, 4002, 4003, 4004, 4005, 4006, 4009, 4011, 4012, 4014, 4015, 4016}
    THEN code ELSE 0

\* OpCode: the opcodes the deserializer knows
OpCode == {"Identify", "SelectProtocol", "Ready", "Heartbeat", "SessionDescription",
           "Speaking", "HeartbeatAck", "Resume", "Hello", "Resumed", "ClientConnect",
           "ClientDisconnect"}

\* what the websocket stream yields.  A Text message has an opcode ("missing"
\* when none can be scanned, "unknown" for a number outside OpCode), a `d`
\* that deserialises or not, and for Ready the modes offered.  The others are
\* a Close with its code (0 when it has no frame), a Ping, an Error of the
\* transport (code 1 for ResetWithoutClosingHandshake) and the End of the stream.
Text(op, valid, modes) == [kind |-> "Text", op |-> op, valid |-> valid, modes |-> modes, code |-> 0]
Raw(kind, code) == [kind |-> kind, op |-> "none", valid |-> TRUE, modes |-> <<>>, code |-> code]

\* the messages a live websocket can yield
Messages ==
    {Text(op, TRUE, <<>>) : op \in {"Hello", "SessionDescription", "Speaking", "HeartbeatAck",
                                    "Resumed", "ClientConnect", "ClientDisconnect", "Heartbeat"}}
    \cup {Text("Ready", TRUE, m) : m \in ModeLists}
    \cup {Text("Speaking", FALSE, <<>>), Text("unknown", TRUE, <<>>), Text("missing", TRUE, <<>>)}
    \cup {Raw("Close", c) : c \in {0, 1000, 4006, 4014, 4015}}
    \cup {Raw("Ping", 0), Raw("Error", 1), Raw("Error", 0), Raw("End", 0)}

\* results of the free function recv
Got(ev, modes) == [type |-> "Ok", ev |-> ev, modes |-> modes, err |-> WsError("none", 0)]
Failed(err) == [type |-> "Err", ev |-> "none", modes |-> <<>>, err |-> err]
Empty(type) == [type |-> type, ev |-> "none", modes |-> <<>>, err |-> WsError("none", 0)]

\* the free function recv, for one message of the stream: Skip is a ping or
\* pong, after which its loop reads on
Recv(msg) ==
    CASE msg.kind = "Text" ->
           IF msg.op = "missing" THEN Failed(WsError("Protocol", 0))
           ELSE IF msg.op \notin OpCode \/ ~msg.valid THEN Failed(WsError("Protocol", 0))
           ELSE Got(msg.op, msg.modes)
      [] msg.kind = "Close" ->
           IF msg.code # 0 /\ from_code(msg.code) # 0
           THEN Failed(WsError("Api", from_code(msg.code)))
           ELSE Failed(WsError("Closed", 0))
      [] msg.kind = "Error" -> Failed(WsError("Ws", msg.code))
      [] msg.kind = "End" -> Empty("None")
      [] OTHER -> Empty("Skip")

\* `ready.modes.iter().find(..)`: the mode when the list holds it
Find(modes, m) == IF \E i \in 1..Len(modes) : modes[i] = m THEN m ELSE "None"

\* the first supported mode of the list, in the order offered
ChooseMode_in_order(modes) ==
    IF \E i \in 1..Len(modes) : modes[i] # "Other"
    THEN modes[CHOOSE i \in 1..Len(modes) :
                  modes[i] # "Other" /\ \A j \in 1..(i - 1) : modes[j] = "Other"]
    ELSE "None"

\* handshake, "choose encryption mode": lite > suffix > normal, before unwrap
ChooseMode(modes) ==
    IF Find(modes, "Lite") # "None" THEN Find(modes, "Lite")
    ELSE IF Find(modes, "Suffix") # "None" THEN Find(modes, "Suffix")
    ELSE Find(modes, "Normal")

\* what the Connection puts on the network: a websocket opened to an endpoint,
\* or a message written to websocket wss
Written(type, wss) ==
    [type |-> type, wss |-> wss, endpoint |-> 0, guild_id |-> "", user_id |-> "",
     session_id |-> "", token |-> "", mode |-> "None", nonce |-> 0, speaking |-> 0]

\* connect_async(format!("wss://{}/?v=4", endpoint))
Opened(endpoint, wss) == [Written("Open", wss) EXCEPT !.endpoint = endpoint]

\* the Identify of handshake
Identify(c) ==
    [Written("Identify", c.wss) EXCEPT !.guild_id = c.session.guild_id,
                                       !.user_id = c.session.user_id,
                                       !.session_id = c.session.session_id,
                                       !.token = c.session.token]

\* the Resume of resume
Resume(c) ==
    [Written("Resume", c.wss) EXCEPT !.guild_id = c.session.guild_id,
                                     !.session_id = c.session.session_id,
                                     !.token = c.session.token]

SelectProtocol(c, mode) == [Written("SelectProtocol", c.wss) EXCEPT !.mode = mode]
Heartbeat(c) == [Written("Heartbeat", c.wss) EXCEPT !.nonce = c.nonce]

\* ------------------------------------------------- Connection: handshake
\* the player outside the Connection does not move
PlayerIdle == UNCHANGED <<streamerVars, socketVars, taskVars, chanVars>>

\* a panic unwinds the task: its struct is dropped without an event
Panics ==
    /\ result' = [type |-> "Panic", ssrc |-> W32(0), err |-> "unwrap"]
    /\ vstu' = NoEvent
    /\ vseu' = NoEvent
    /\ TaskEnds
    /\ UNCHANGED <<statuses, ended, wire, state, events, speaking, handle_alive, plays, ret>>

\* the future recv of the select, not yet past its first await
RecvTop == [NoFuture EXCEPT !.call = "recv", !.at = "select"]

\* the Connection after one more message was read: an error or the end of the
\* stream leaves the websocket unusable
AfterRead(c, r) ==
    [c EXCEPT !.reads = c.reads + 1,
              !.open = c.open /\ r.type # "None" /\ (r.type = "Err" => r.err.kind = "Protocol")]

\* the messages the websocket in use can yield next: once it has closed or
\* failed, an error of the transport or the end of the stream
Yields == IF conn.open THEN Messages ELSE {Raw("Error", 0), Raw("End", 0)}

\* Connection::connect returns Err: PlayerTask::new fails with it
ConnectErr(err) ==
    /\ out' = Out("Err", err)
    /\ fut' = NoFuture
    /\ new_connect_err
    /\ result'.err = "Ws"

\* an unwrap of handshake panics
ConnectPanics ==
    /\ out' = Out("Panic", WsError("none", 0))
    /\ fut' = NoFuture
    /\ Panics

\* connect: connect_async returns the websocket, or fails (`?`)
connect_async ==
    /\ pc = "connect"
    /\ fut.at = "connect_async"
    /\ \/ /\ conn' = [conn EXCEPT !.wss = 1, !.open = TRUE]
          /\ outbox' = Append(outbox, Opened(conn.session.endpoint, 1))
          /\ fut' = [fut EXCEPT !.at = "identify"]
          /\ UNCHANGED out
          /\ PlayerIdle
       \/ /\ ConnectErr(WsError("Ws", 0))
          /\ UNCHANGED <<conn, outbox>>
    /\ UNCHANGED <<timeVars, unitVars>>

\* handshake: Identify is written before anything is read
handshake_identify ==
    /\ pc = "connect"
    /\ fut.at = "identify"
    /\ \/ /\ outbox' = Append(outbox, Identify(conn))
          /\ fut' = [fut EXCEPT !.at = "hello_ready"]
          /\ UNCHANGED <<conn, out>>
          /\ PlayerIdle
       \/ /\ ConnectErr(WsError("Ws", 0))
          /\ conn' = [conn EXCEPT !.open = FALSE]
          /\ UNCHANGED outbox
    /\ UNCHANGED <<timeVars, unitVars>>

\* the loop left as soon as Ready is in
handshake_hello_ready_without_hello ==
    /\ pc = "connect"
    /\ fut.at = "hello_ready"
    /\ conn.reads < MaxReads
    /\ \E msg \in Yields :
          LET r == Recv(msg)
          IN /\ conn' = AfterRead(conn, r)
             /\ UNCHANGED outbox
             /\ CASE r.type = "Ok" /\ r.ev \in {"Hello", "Ready"} ->
                       /\ fut' = [fut EXCEPT !.hello = @ \/ r.ev = "Hello",
                                             !.got_ready = @ \/ r.ev = "Ready",
                                             !.ready = IF r.ev = "Ready" THEN r.modes ELSE @,
                                             !.at = IF r.ev = "Ready" THEN "udp" ELSE @]
                       /\ UNCHANGED out
                       /\ PlayerIdle
                  [] r.type = "Err" /\ r.err.kind # "Protocol" -> ConnectErr(r.err)
                  [] r.type = "None" -> ConnectPanics
                  [] OTHER -> UNCHANGED <<fut, out>> /\ PlayerIdle
    /\ UNCHANGED <<timeVars, unitVars>>

\* handshake: the loop that waits for Hello and Ready
handshake_hello_ready ==
    /\ pc = "connect"
    /\ fut.at = "hello_ready"
    /\ conn.reads < MaxReads
    /\ \E msg \in Yields :
          LET r == Recv(msg)
              hello == fut.hello \/ (r.type = "Ok" /\ r.ev = "Hello")
              got_ready == fut.got_ready \/ (r.type = "Ok" /\ r.ev = "Ready")
          IN /\ conn' = AfterRead(conn, r)
             /\ UNCHANGED outbox
             /\ CASE r.type = "Ok" /\ r.ev \in {"Hello", "Ready"} ->
                       /\ fut' = [fut EXCEPT !.hello = hello,
                                             !.got_ready = got_ready,
                                             !.ready = IF r.ev = "Ready" THEN r.modes ELSE @,
                                             !.at = IF hello /\ got_ready THEN "udp" ELSE @]
                       /\ UNCHANGED out
                       /\ PlayerIdle
                  [] r.type = "Err" /\ r.err.kind # "Protocol" -> ConnectErr(r.err)
                  [] r.type = "None" -> ConnectPanics
                  [] OTHER -> UNCHANGED <<fut, out>> /\ PlayerIdle
    /\ UNCHANGED <<timeVars, unitVars>>

\* IpDiscoveryError inside ws::Error::IpDiscovery: the variant, the length
\* for InvalidSize, the two SSRCs for InvalidSsrc
IpDiscoveryError(variant, size, expected, got) ==
    [kind |-> "IpDiscovery", code |-> size, variant |-> variant,
     expected |-> expected, got |-> got]

\* what udp.recv delivers to ip_discovery: an error, or `size` bytes that
\* begin with a header and an SSRC and carry an address that is an IP
\* address, other text, or no UTF-8
RES_HEADER == <<0, 2, 0, 70>>
Reply(size, header, ssrc, addr) ==
    [io |-> FALSE, size |-> size, buf |-> header \o BE32(ssrc), addr |-> addr]
Replies(ssrc) ==
    {Reply(74, RES_HEADER, ssrc, "ip"), Reply(74, RES_HEADER, SSRC(2), "ip"),
     Reply(74, <<0, 1, 0, 70>>, ssrc, "ip"), Reply(74, <<0, 1, 0, 70>>, SSRC(2), "ip"),
     Reply(70, RES_HEADER, ssrc, "ip"), Reply(74, RES_HEADER, ssrc, "text"),
     Reply(74, RES_HEADER, ssrc, "bytes"),
     [Reply(0, RES_HEADER, ssrc, "ip") EXCEPT !.io = TRUE]}

\* ip_discovery, from the reply on
ip_discovery(reply, ssrc) ==
    LET pkt_ssrc == FromBE32(SubSeq(reply.buf, 5, 8))
        none == W32(0)
    IN CASE reply.io -> [ok |-> FALSE, err |-> IpDiscoveryError("Io", 0, none, none)]
         [] reply.size # 74 ->
               [ok |-> FALSE, err |-> IpDiscoveryError("InvalidSize", reply.size, none, none)]
         [] SubSeq(reply.buf, 1, 4) # RES_HEADER ->
               [ok |-> FALSE, err |-> IpDiscoveryError("InvalidHeader", 0, none, none)]
         [] pkt_ssrc # ssrc ->
               [ok |-> FALSE, err |-> IpDiscoveryError("InvalidSsrc", 0, ssrc, pkt_ssrc)]
         [] reply.addr = "bytes" ->
               [ok |-> FALSE, err |-> IpDiscoveryError("InvalidAddrUtf8", 0, none, none)]
         [] reply.addr = "text" ->
               [ok |-> FALSE, err |-> IpDiscoveryError("InvalidAddr", 0, none, none)]
         [] OTHER -> [ok |-> TRUE, err |-> WsError("none", 0)]

\* handshake: the heartbeater is made, the UDP socket bound and connected
\* (these fail with Io) and the address discovered with the ssrc of Ready,
\* or one of these fails (`?`)
handshake_udp ==
    /\ pc = "connect"
    /\ fut.at = "udp"
    /\ \/ \E reply \in Replies(SSRC(1)) :
             LET r == ip_discovery(reply, SSRC(1))
             IN IF r.ok
                THEN /\ conn' = [conn EXCEPT !.nonce = 0]
                     /\ fut' = [fut EXCEPT !.at = "select"]
                     /\ UNCHANGED out
                     /\ PlayerIdle
                ELSE /\ ConnectErr(r.err)
                     /\ UNCHANGED conn
       \/ /\ ConnectErr(WsError("Io", 0))
          /\ UNCHANGED conn
    /\ UNCHANGED <<outbox, timeVars, unitVars>>

\* `match mode { .. }`: the Encryptor's mode for the mode chosen
encryptor_mode(mode) ==
    IF mode \in {"Normal", "Suffix", "Lite"} THEN mode ELSE "Unsupported"

\* handshake: the mode is chosen (unwrap panics when none is found) and
\* SelectProtocol written
handshake_select ==
    /\ pc = "connect"
    /\ fut.at = "select"
    /\ LET mode == ChooseMode(fut.ready)
       IN CASE mode = "None" ->
                 /\ ConnectPanics
                 /\ UNCHANGED <<conn, outbox>>
            [] encryptor_mode(mode) = "Unsupported" ->
                 /\ ConnectErr(WsError("Protocol", 0))
                 /\ UNCHANGED <<conn, outbox>>
            [] OTHER ->
                 \/ /\ outbox' = Append(outbox, SelectProtocol(conn, mode))
                    /\ conn' = [conn EXCEPT !.mode = encryptor_mode(mode)]
                    /\ fut' = [fut EXCEPT !.at = "desc"]
                    /\ UNCHANGED out
                    /\ PlayerIdle
                 \/ /\ ConnectErr(WsError("Ws", 0))
                    /\ conn' = [conn EXCEPT !.open = FALSE]
                    /\ UNCHANGED outbox
    /\ UNCHANGED <<timeVars, unitVars>>

\* handshake: the loop that waits for SessionDescription; with it connect
\* returns the Connection and the Socket built from ready.ssrc
handshake_desc ==
    /\ pc = "connect"
    /\ fut.at = "desc"
    /\ conn.reads < MaxReads
    /\ \E msg \in Yields :
          LET r == Recv(msg)
          IN /\ UNCHANGED outbox
             /\ CASE r.type = "Ok" /\ r.ev = "SessionDescription" ->
                       /\ conn' = [AfterRead(conn, r) EXCEPT !.handshake = "done"]
                       /\ out' = Out("Ok", WsError("none", 0))
                       /\ fut' = RecvTop
                       /\ new_connected
                  [] r.type = "Err" /\ r.err.kind # "Protocol" ->
                       /\ conn' = AfterRead(conn, r)
                       /\ ConnectErr(r.err)
                  [] r.type = "None" ->
                       /\ conn' = AfterRead(conn, r)
                       /\ ConnectPanics
                  [] OTHER ->
                       /\ conn' = AfterRead(conn, r)
                       /\ UNCHANGED <<fut, out>>
                       /\ PlayerIdle
    /\ UNCHANGED <<timeVars, unitVars>>

\* PlayerTask::new: timeout_at(deadline, Connection::connect(..)) elapses and
\* drops the connect future wherever it is
connect_timeout ==
    /\ pc = "connect"
    /\ fut.call = "connect"
    /\ fut' = NoFuture
    /\ new_connect_err
    /\ result'.err = "Timeout"
    /\ UNCHANGED <<conn, outbox, out, timeVars, unitVars>>

\* ------------------------------------------------------ Connection: recv
\* recv returns to the select of run_inner, whose websocket branch handles
\* what it returned; the next iteration polls a new recv future
RecvReturns(o) ==
    /\ out' = o
    /\ CASE o.type = "Event" -> ws_event
         [] o.type = "None" -> ws_none
         [] o.type = "Err" /\ disconnected(o.err) -> ws_disconnected
         [] o.type = "Err" /\ can_resume(o.err) -> ws_resumable
         [] OTHER -> ws_fatal
    /\ fut' = IF pc' = "run" THEN RecvTop ELSE NoFuture

\* recv: `ev = recv(&mut self.wss)` completes in the select of its loop
recv_message ==
    /\ pc = "run"
    /\ fut.call = "recv"
    /\ fut.at = "select"
    /\ conn.reads < MaxReads
    /\ \E msg \in Yields :
          LET r == Recv(msg)
              c == AfterRead(conn, r)
          IN /\ UNCHANGED outbox
             /\ CASE r.type = "Ok" /\ r.ev \in {"Speaking", "ClientConnect", "ClientDisconnect"} ->
                       /\ conn' = c
                       /\ RecvReturns(Out("Event", WsError("none", 0)))
                  [] r.type = "Ok" /\ r.ev = "Resumed" /\ conn.handshake = "sent" ->
                       /\ conn' = [c EXCEPT !.handshake = "done"]
                       /\ UNCHANGED <<fut, out>>
                       /\ PlayerIdle
                  [] r.type = "Err" /\ r.err.kind # "Protocol" /\ can_resume(r.err) ->
                       /\ conn' = c
                       /\ fut' = [fut EXCEPT !.at = "resume_connect"]
                       /\ UNCHANGED out
                       /\ PlayerIdle
                  [] r.type = "Err" /\ r.err.kind # "Protocol" /\ ~can_resume(r.err) ->
                       /\ conn' = c
                       /\ RecvReturns(Out("Err", r.err))
                  [] r.type = "None" ->
                       /\ conn' = c
                       /\ RecvReturns(Out("None", WsError("none", 0)))
                  [] OTHER ->
                       /\ conn' = c
                       /\ UNCHANGED <<fut, out>>
                       /\ PlayerIdle
    /\ UNCHANGED <<timeVars, unitVars>>

\* recv: `heartbeat = self.heartbeater.next()` completes in the select; the
\* nonce is advanced and the write of the Heartbeat awaited
heartbeat_due ==
    /\ pc = "run"
    /\ fut.call = "recv"
    /\ fut.at = "select"
    /\ conn.nonce < MaxBeats
    /\ conn' = [conn EXCEPT !.nonce = conn.nonce + 1]
    /\ fut' = [fut EXCEPT !.at = "heartbeat"]
    /\ UNCHANGED <<outbox, out, timeVars, unitVars>>
    /\ PlayerIdle

\* recv: `send(&mut self.wss, &GatewayEvent::Heartbeat(heartbeat)).await.unwrap()`
heartbeat_send ==
    /\ pc = "run"
    /\ fut.at = "heartbeat"
    /\ \/ /\ conn.open
          /\ outbox' = Append(outbox, Heartbeat(conn))
          /\ fut' = RecvTop
          /\ UNCHANGED <<conn, out>>
          /\ PlayerIdle
       \/ /\ conn' = [conn EXCEPT !.open = FALSE]
          /\ out' = Out("Panic", WsError("none", 0))
          /\ fut' = NoFuture
          /\ Panics
          /\ UNCHANGED outbox
    /\ UNCHANGED <<timeVars, unitVars>>

\* ---------------------------------------------------- Connection: resume
\* Connection::send returns to the handler of the stream branch
SendReturns(o) ==
    /\ out' = o
    /\ on_status
    /\ (pc' = "run") <=> (o.type = "Ok")
    /\ fut' = IF pc' = "run" THEN RecvTop ELSE NoFuture

\* resume returns Ok(()) with a Socket built anew
ResumeOk_rebuilds ==
    /\ fut' = IF fut.call = "recv" THEN RecvTop ELSE [fut EXCEPT !.at = "resend"]
    /\ rtp' = Socket_new(rtp.ssrc, rtp.gen)
    /\ UNCHANGED <<out, wire, streamerVars, taskVars, chanVars>>

\* resume returns Ok(()): recv goes round its loop, send writes the event again
ResumeOk ==
    /\ fut' = IF fut.call = "recv" THEN RecvTop ELSE [fut EXCEPT !.at = "resend"]
    /\ UNCHANGED out
    /\ PlayerIdle

\* resume returns Err(err): recv and send return it
ResumeErr(err) ==
    IF fut.call = "recv" THEN RecvReturns(Out("Err", err)) ELSE SendReturns(Out("Err", err))

\* resume: connect_async to the session's endpoint; `self.wss = wss`
resume_connect ==
    /\ pc \in {"run", "status"}
    /\ fut.at = "resume_connect"
    /\ \/ /\ conn' = [conn EXCEPT !.wss = conn.wss + 1, !.open = TRUE, !.handshake = "opened"]
          /\ outbox' = Append(outbox, Opened(conn.session.endpoint, conn.wss + 1))
          /\ fut' = [fut EXCEPT !.at = "resume_send"]
          /\ UNCHANGED out
          /\ PlayerIdle
       \/ /\ ResumeErr(WsError("Ws", 0))
          /\ UNCHANGED <<conn, outbox>>
    /\ UNCHANGED <<timeVars, unitVars>>

\* resume: Resume is written
resume_send ==
    /\ pc \in {"run", "status"}
    /\ fut.at = "resume_send"
    /\ \/ /\ outbox' = Append(outbox, Resume(conn))
          /\ conn' = [conn EXCEPT !.handshake = "sent"]
          /\ fut' = [fut EXCEPT !.at = "resume_wait"]
          /\ UNCHANGED out
          /\ PlayerIdle
       \/ /\ conn' = [conn EXCEPT !.open = FALSE]
          /\ ResumeErr(WsError("Ws", 0))
          /\ UNCHANGED outbox
    /\ UNCHANGED <<timeVars, unitVars>>

\* resume: the loop that waits for Resumed; every error ends it, and so does
\* the end of the stream, after which resume returns Ok(())
resume_wait ==
    /\ pc \in {"run", "status"}
    /\ fut.at = "resume_wait"
    /\ conn.reads < MaxReads
    /\ \E msg \in Yields :
          LET r == Recv(msg)
              c == AfterRead(conn, r)
          IN /\ UNCHANGED outbox
             /\ CASE r.type = "Ok" /\ r.ev = "Resumed" ->
                       /\ conn' = [c EXCEPT !.handshake = "done"]
                       /\ ResumeOk
                  [] r.type = "Err" ->
                       /\ conn' = c
                       /\ ResumeErr(r.err)
                  [] r.type = "None" ->
                       /\ conn' = c
                       /\ ResumeOk
                  [] OTHER ->
                       /\ conn' = c
                       /\ UNCHANGED <<fut, out>>
                       /\ PlayerIdle
    /\ UNCHANGED <<timeVars, unitVars>>

\* ------------------------------------------------------ Connection: send
\* the Speaking the handler of a status writes
SpeakingWritten(c) ==
    [Written("Speaking", c.wss) EXCEPT !.speaking = OnStatus(result, streamer).speaking]

\* send: the event is written, or the write fails with an error that can be
\* resumed from or with another
send_command ==
    /\ pc = "status"
    /\ fut.call = "none"
    /\ \/ /\ conn.open
          /\ outbox' = Append(outbox, SpeakingWritten(conn))
          /\ SendReturns(Out("Ok", WsError("none", 0)))
          /\ UNCHANGED conn
       \/ /\ conn' = [conn EXCEPT !.open = FALSE]
          /\ fut' = [NoFuture EXCEPT !.call = "send", !.at = "resume_connect"]
          /\ UNCHANGED <<outbox, out>>
          /\ PlayerIdle
       \/ /\ conn' = [conn EXCEPT !.open = FALSE]
          /\ SendReturns(Out("Err", WsError("Ws", 0)))
          /\ UNCHANGED outbox
    /\ UNCHANGED <<timeVars, unitVars>>

\* send: after a resume, `Ok(()) => send(&mut self.wss, &ev).await`
send_again ==
    /\ pc = "status"
    /\ fut.at = "resend"
    /\ \/ /\ conn.open
          /\ outbox' = Append(outbox, SpeakingWritten(conn))
          /\ SendReturns(Out("Ok", WsError("none", 0)))
          /\ UNCHANGED conn
       \/ /\ conn' = [conn EXCEPT !.open = FALSE]
          /\ SendReturns(Out("Err", WsError("Ws", 0)))
          /\ UNCHANGED outbox
    /\ UNCHANGED <<timeVars, unitVars>>

\* -------------------------------------------- connection specification
\* The task from its call of Connection::connect on, with the Connection in
\* full and without the gateway: a Play command waits in command_rx.

\* a branch of the select other than the websocket's completes: the recv
\* future is dropped where it is, and the next iteration polls a new one
RecvDropped ==
    /\ fut' = IF pc' = "run" THEN RecvTop ELSE NoFuture
    /\ UNCHANGED <<conn, outbox, out, timeVars, unitVars>>

\* the stream future makes a step while recv is pending; when it returns, the
\* recv future is dropped
BesideRecv ==
    /\ fut' = IF pc' = "run" THEN fut ELSE NoFuture
    /\ UNCHANGED <<conn, outbox, out, timeVars, unitVars>>

InitConn ==
    /\ streamer = PacketStreamer_new
    /\ stream = Top
    /\ rtp = Socket_new(W32(0), 0)
    /\ wire = <<>>
    /\ pc = "connect"
    /\ result = NoResult
    /\ \E channel \in BOOLEAN :
          /\ vstu = VoiceStateUpdate(TRUE, channel)
          /\ state = [playing |-> FALSE, ready |-> FALSE,
                      voice_state |-> [own |-> TRUE, channel |-> channel]]
    /\ vseu = VoiceServerUpdate
    /\ receivers = TRUE
    /\ gateway_rx = <<>>
    /\ \E n \in 0..MaxFrames : command_rx = <<Command("Play", 1, n)>>
    /\ handle_alive = TRUE
    /\ events = <<>>
    /\ speaking = <<>>
    /\ statuses = <<>>
    /\ ended = 0
    /\ plays = 1
    /\ ret = [call |-> "none", result |-> "none"]
    /\ \E endpoint \in {1, 2} : conn = [NoConnection EXCEPT !.session = Session(endpoint)]
    /\ fut = [NoFuture EXCEPT !.call = "connect", !.at = "connect_async"]
    /\ outbox = <<>>
    /\ out = Out("none", WsError("none", 0))
    /\ now = 0
    /\ next_packet = 0
    /\ burst = NoBurst
    /\ Unused

NextConn ==
    \/ connect_async
    \/ handshake_identify
    \/ handshake_hello_ready
    \/ handshake_udp
    \/ handshake_select
    \/ handshake_desc
    \/ connect_timeout
    \/ recv_message
    \/ heartbeat_due
    \/ heartbeat_send
    \/ resume_connect
    \/ resume_send
    \/ resume_wait
    \/ send_command
    \/ send_again
    \/ command_recv /\ RecvDropped
    \/ stream_sleep /\ BesideRecv
    \/ stream_send /\ BesideRecv
    \/ stream_send_pending /\ BesideRecv
    \/ stream_send_encrypt_err /\ BesideRecv
    \/ stream_send_io_err /\ BesideRecv
    \/ udp_sent /\ BesideRecv
    \/ udp_io_err /\ BesideRecv
    \/ next_silence /\ BesideRecv
    \/ next_from_source /\ BesideRecv
    \/ read_frame /\ BesideRecv
    \/ read_eof /\ BesideRecv
    \/ read_timeout /\ BesideRecv
    \/ read_err /\ BesideRecv
    \/ close_done /\ BesideRecv
    \/ close_err /\ BesideRecv
    \/ run /\ Abstracted
    \/ run_closed /\ Abstracted

SpecConn == InitConn /\ [][NextConn]_vars

\* -------------------------------------------------- paced specification
\* The task in its select with a Play command queued, the streamer against
\* the clock: sleep_until(next_packet) before each send, timeout_at(next_packet
\* + patience) around each read while streaming.  Times are in milliseconds.

\* TIMESTEP_LENGTH
TIMESTEP_LENGTH == 20
\* `PacketStreamer::new(Duration::from_millis(200))`
Patience == 200
\* the clock stops here
MaxNow == 300
\* frames of the source played
MaxSourceFrames == 2

\* the deadline read from the clock after each send
NextDeadline_from_clock(np, t) == t + TIMESTEP_LENGTH

\* stream, "setup for next packet": `self.next_packet = self.next_packet + TIMESTEP_LENGTH`
NextDeadline(np, t) == np + TIMESTEP_LENGTH

\* next_from_source, "reset interval": `self.next_packet = Instant::now() + TIMESTEP_LENGTH`
\* when Started is returned
ResetInterval == IF pc' = "status" THEN now + TIMESTEP_LENGTH ELSE next_packet

\* the clock at a silence datagram of a stall that has more to follow
LastSilence ==
    IF burst.stall /\ burst.silence + 1 < SilenceBurst THEN now ELSE 0

\* burst after a datagram was written
Counted ==
    IF ~streamer.waiting_for_source THEN burst
    ELSE IF streamer.packet.payload = SILENCE_FRAME
         THEN [burst EXCEPT !.silence = burst.silence + 1, !.last = LastSilence]
         ELSE [burst EXCEPT !.audio = burst.audio + 1]

\* burst after a step that may call wait_for_source
Left(stall) ==
    IF ~streamer.waiting_for_source /\ streamer'.waiting_for_source
    THEN [NoBurst EXCEPT !.stall = stall]
    ELSE burst

\* burst after a step that may return Stopped
Stops == IF pc' = "status" THEN [burst EXCEPT !.stopped = burst.stopped + 1] ELSE burst

\* a step of the task at a time not before `due`; the clock stands while it
\* is taken
Timed(due, np, b) ==
    /\ now >= due
    /\ now' = now
    /\ next_packet' = np
    /\ burst' = b
    /\ UNCHANGED <<connVars, unitVars>>

\* time passes
tick ==
    /\ \E d \in {10, 200} : now + d <= MaxNow /\ now' = now + d
    /\ UNCHANGED <<streamerVars, socketVars, taskVars, chanVars, connVars, next_packet, burst, unitVars>>

InitStreamer ==
    /\ streamer = PacketStreamer_new
    /\ stream = Top
    /\ rtp = Socket_new(SSRC(1), 1)
    /\ wire = <<>>
    /\ pc = "run"
    /\ result = NoResult
    /\ vstu = NoEvent
    /\ vseu = NoEvent
    /\ state = [playing |-> FALSE, ready |-> TRUE,
                voice_state |-> [own |-> TRUE, channel |-> TRUE]]
    /\ receivers = TRUE
    /\ gateway_rx = <<>>
    /\ \E n \in 0..MaxSourceFrames : command_rx = <<Command("Play", 1, n)>>
    /\ handle_alive = TRUE
    /\ events = <<Event("Ready")>>
    /\ speaking = <<>>
    /\ statuses = <<>>
    /\ ended = 0
    /\ plays = 1
    /\ ret = [call |-> "none", result |-> "none"]
    /\ Unobserved

NextStreamer ==
    \/ tick
    \/ command_recv /\ Timed(0, next_packet, Left(FALSE))
    \/ ws_event /\ Timed(0, next_packet, burst)
    \/ on_status /\ Timed(0, next_packet, burst)
    \/ stream_sleep /\ Timed(0, next_packet, burst)
    \/ stream_send /\ Timed(next_packet, NextDeadline(next_packet, now), Counted)
    \/ stream_send_pending /\ Timed(next_packet, next_packet, burst)
    \/ stream_send_encrypt_err /\ Timed(next_packet, next_packet, burst)
    \/ stream_send_io_err /\ Timed(next_packet, next_packet, burst)
    \/ udp_sent /\ Timed(0, NextDeadline(next_packet, now), Counted)
    \/ udp_io_err /\ Timed(0, next_packet, burst)
    \/ next_silence /\ Timed(0, next_packet, Stops)
    \/ next_from_source /\ Timed(0, next_packet, burst)
    \/ read_frame /\ Timed(0, ResetInterval, burst)
    \/ read_eof /\ Timed(0, next_packet, Left(FALSE))
    \/ read_timeout /\ Timed(next_packet + Patience, next_packet, Left(TRUE))
    \/ read_err /\ Timed(0, next_packet, burst)
    \/ close_done /\ Timed(0, ResetInterval, burst)
    \/ close_err /\ Timed(0, next_packet, burst)
    \/ run /\ Timed(0, next_packet, Left(FALSE))
    \/ run_closed /\ Timed(0, next_packet, burst)
    \/ Player_pause /\ Timed(0, next_packet, burst)
    \/ Player_resume /\ Timed(0, next_packet, burst)
    \/ Player_stop /\ Timed(0, next_packet, burst)

SpecStreamer == InitStreamer /\ [][NextStreamer]_vars

\* -------------------------------------------------- flag specification
\* set_playing as the two atomic operations it is made of, with
\* Player::playing reading the flag from another thread: the task in its
\* select with a source to play.

\* the handler of the stream branch up to the fetch_xor of set_playing:
\* `self.state.playing.fetch_xor(playing, Ordering::Acquire)` leaves
\* previous XOR playing in the flag and returns the previous value
on_status_fetch_xor ==
    /\ pc = "status"
    /\ LET h == OnStatus(result, streamer)
       IN \/ /\ speaking' = Append(speaking, Speaking(h.speaking, result.ssrc, rtp.gen))
             /\ state' = IF h.publish
                         THEN [state EXCEPT !.playing = (state.playing # h.playing)]
                         ELSE state
             /\ pc' = IF h.publish /\ state.playing THEN "store" ELSE "run"
             /\ UNCHANGED result
          \/ /\ Fails("Ws")
             /\ UNCHANGED <<speaking, state>>
    /\ UNCHANGED <<streamer, stream, statuses, ended, socketVars, vstu, vseu, receivers,
                   events, chanVars>>

\* fetch_xor returned true: `self.state.playing.store(playing, ..)`, then the
\* event is sent
set_playing_store ==
    /\ pc = "store"
    /\ LET h == OnStatus(result, streamer)
       IN /\ state' = [state EXCEPT !.playing = h.playing]
          /\ events' = Append(events, Event(IF h.playing THEN "Playing" ELSE "Stopped"))
          /\ ended' = IF h.playing THEN ended ELSE 0
    /\ pc' = "run"
    /\ UNCHANGED <<streamer, stream, statuses, socketVars, result, vstu, vseu, receivers,
                   speaking, chanVars>>

\* Player::playing: `self.state.playing.load(Ordering::Acquire)`
Player_playing ==
    /\ handle_alive
    /\ ret' = [call |-> "playing", result |-> IF state.playing THEN "true" ELSE "false"]
    /\ UNCHANGED <<streamerVars, socketVars, taskVars, gateway_rx, command_rx, handle_alive, plays>>

InitFlag ==
    /\ streamer = PacketStreamer_new
    /\ stream = Top
    /\ rtp = Socket_new(SSRC(1), 1)
    /\ wire = <<>>
    /\ pc = "run"
    /\ result = NoResult
    /\ vstu = NoEvent
    /\ vseu = NoEvent
    /\ state = [playing |-> FALSE, ready |-> TRUE,
                voice_state |-> [own |-> TRUE, channel |-> TRUE]]
    /\ receivers = TRUE
    /\ gateway_rx = <<>>
    /\ \E n \in 0..MaxSourceFrames : command_rx = <<Command("Play", 1, n)>>
    /\ handle_alive = TRUE
    /\ events = <<Event("Ready")>>
    /\ speaking = <<>>
    /\ statuses = <<>>
    /\ ended = 0
    /\ plays = 1
    /\ ret = [call |-> "none", result |-> "none"]
    /\ Unobserved

NextFlag ==
    \/ Stream
    \/ command_recv /\ Abstracted
    \/ on_status_fetch_xor /\ Abstracted
    \/ set_playing_store /\ Abstracted
    \/ run /\ Abstracted
    \/ run_closed /\ Abstracted
    \/ Player_playing /\ Abstracted
    \/ Player_stop /\ Abstracted

SpecFlag == InitFlag /\ [][NextFlag]_vars

\* ----------------------------------------------- session specification
\* The Session that voice_server_update hands to Connection::connect: the
\* task in its select with a Connection made from a Session, a source to
\* play, and VoiceServerUpdates with several endpoints and tokens.  conn
\* holds the Connection's session; the rest of the Connection stays
\* unobserved.
ServerUpdates == {ServerUpdate(endpoint, token) : endpoint \in {0, 1, 2}, token \in {"token", "fresh"}}

\* `Session { guild_id: self.state.guild_id, user_id: self.state.user_id,
\* endpoint: vseu.endpoint.unwrap(), token: vseu.token,
\* session_id: self.ws.session().session_id.clone() }`; the ids of the
\* PlayerState are those of Session
Session_update(c, ev) ==
    [endpoint |-> ev.endpoint, guild_id |-> Session(0).guild_id,
     user_id |-> Session(0).user_id, token |-> ev.token,
     session_id |-> c.session.session_id]

\* `(self.ws, self.rtp) = match timeout_at(deadline, Connection::connect(session))`:
\* the Connection is replaced together with the Socket
Reconnects ==
    /\ conn' = IF Head(gateway_rx).type = "VoiceServerUpdate" /\ rtp'.gen # rtp.gen
               THEN [conn EXCEPT !.session = Session_update(conn, Head(gateway_rx))]
               ELSE conn
    /\ UNCHANGED <<fut, outbox, out, timeVars, unitVars>>

InitSession ==
    /\ streamer = PacketStreamer_new
    /\ stream = Top
    /\ rtp = Socket_new(SSRC(1), 1)
    /\ wire = <<>>
    /\ pc = "run"
    /\ result = NoResult
    /\ vstu = NoEvent
    /\ vseu = NoEvent
    /\ state = [playing |-> FALSE, ready |-> TRUE,
                voice_state |-> [own |-> TRUE, channel |-> TRUE]]
    /\ receivers = TRUE
    /\ gateway_rx = <<>>
    /\ \E n \in 0..MaxFrames : command_rx = <<Command("Play", 1, n)>>
    /\ handle_alive = TRUE
    /\ events = <<Event("Ready")>>
    /\ speaking = <<>>
    /\ statuses = <<>>
    /\ ended = 0
    /\ plays = 1
    /\ ret = [call |-> "none", result |-> "none"]
    /\ \E session_id \in {"session", "moved"} :
           conn = [NoConnection EXCEPT !.session = [Session(1) EXCEPT !.session_id = session_id]]
    /\ fut = NoFuture
    /\ outbox = <<>>
    /\ out = Out("none", WsError("none", 0))
    /\ now = 0
    /\ next_packet = 0
    /\ burst = NoBurst
    /\ Unused

NextSession ==
    \/ Stream
    \/ gateway_recv /\ Reconnects
    \/ command_recv /\ Abstracted
    \/ on_status /\ Abstracted
    \/ run /\ Abstracted
    \/ run_closed /\ Abstracted
    \/ unwind /\ Abstracted
    \/ Player_voice_server_update_of(ServerUpdates) /\ Abstracted
    \/ Player_drop /\ Abstracted

SpecSession == InitSession /\ [][NextSession]_vars

\* -------------------------------------------------- bind specification
\* voice_server_update with the UDP sockets in view: the task in its select
\* with a Socket bound to the port its Ready announced, VoiceServerUpdates
\* arriving, and the handshake of Connection::connect taken in three steps
\* (up to Ready, the bind, the rest).  fut is the connect future; fut.port
\* is the port of the new Ready, and the handshake holds its own UdpSocket
\* from the bind on (fut.at = "select").  self.rtp is assigned only when
\* connect has returned.
ReadyPorts == {50000, 50001}

\* the io::Error of a bind as its errno: the address is in use (EADDRINUSE),
\* the bind is not permitted (EACCES); 0 for Ok
Errno(kind) ==
    CASE kind = "AddrInUse" -> 98
      [] kind = "PermissionDenied" -> 13
      [] OTHER -> 0

\* UdpSocket::bind(("0.0.0.0", port)) while the sockets bound to `held` are
\* open: no socket option is set before the bind, so a port in use is refused
UdpSocket_bind(port, held) ==
    IF port \in held THEN {Errno("AddrInUse")} ELSE {Errno("Ok"), Errno("PermissionDenied")}

\* the gateway branch of the select for a VoiceServerUpdate: the Session is
\* built (`vseu.endpoint.unwrap()`), Connection::connect opens the websocket,
\* writes Identify and reads Hello and Ready, or fails or times out on the way
server_update_handshake ==
    /\ pc = "run"
    /\ gateway_rx # <<>>
    /\ Head(gateway_rx).type = "VoiceServerUpdate"
    /\ gateway_rx' = Tail(gateway_rx)
    /\ stream' = Top
    /\ LET ev == Head(gateway_rx)
       IN IF ev.endpoint = 0
          THEN /\ ServerUpdatePanics
               /\ UNCHANGED <<vseu, fut>>
          ELSE \/ /\ \E e \in {"Timeout", "Ws"} : Fails(e)
                  /\ UNCHANGED <<rtp, speaking, vseu, fut>>
               \/ /\ \E port \in ReadyPorts :
                        fut' = [NoFuture EXCEPT !.call = "connect", !.at = "udp", !.port = port]
                  /\ vseu' = ev
                  /\ pc' = "update"
                  /\ UNCHANGED <<rtp, speaking, result>>
    /\ UNCHANGED <<streamer, statuses, ended, wire, vstu, state, receivers, events,
                   command_rx, handle_alive, plays, ret, conn, outbox, out,
                   timeVars, unitVars>>

\* handshake: `UdpSocket::bind(("0.0.0.0", ready.port)).await?` while self.rtp
\* still is the Socket of the connection being replaced
handshake_bind ==
    /\ pc = "update"
    /\ fut.at = "udp"
    /\ \E errno \in UdpSocket_bind(fut.port, {rtp.port}) :
          IF errno = 0
          THEN /\ fut' = [fut EXCEPT !.at = "select"]
               /\ UNCHANGED <<pc, result, out>>
          ELSE /\ Fails("Ws")
               /\ fut' = NoFuture
               /\ out' = Out("Err", WsError("Io", errno))
    /\ UNCHANGED <<streamerVars, socketVars, vstu, vseu, state, receivers, events, speaking,
                   chanVars, conn, outbox, timeVars, unitVars>>

\* the rest of the handshake (udp.connect, ip_discovery, SelectProtocol,
\* SessionDescription) fails or times out and the new socket is dropped with
\* the future; or connect returns, `(self.ws, self.rtp) = conn` releases the
\* old Connection and Socket, and Speaking is written if a source is streaming
server_update_connected ==
    /\ pc = "update"
    /\ fut.at = "select"
    /\ fut' = NoFuture
    /\ LET ssrc == SSRC(rtp.gen + 1)
           socket == [Socket_new(ssrc, rtp.gen + 1) EXCEPT !.port = fut.port]
       IN \/ /\ \E e \in {"Timeout", "Ws"} : Fails(e)
             /\ UNCHANGED <<rtp, speaking, conn>>
          \/ /\ rtp' = socket
             /\ conn' = [conn EXCEPT !.session = Session_update(conn, vseu)]
             /\ \/ /\ speaking' = IF is_streaming(streamer)
                                  THEN Append(speaking, Speaking(1, ssrc, rtp.gen + 1))
                                  ELSE speaking
                   /\ pc' = "run"
                   /\ UNCHANGED result
                \/ /\ is_streaming(streamer)
                   /\ Fails("Ws")
                   /\ UNCHANGED speaking
    /\ UNCHANGED <<streamerVars, wire, vstu, vseu, state, receivers, events,
                   chanVars, outbox, out, timeVars, unitVars>>

\* the UdpSockets the task holds: the one of self.rtp, and the one the
\* handshake has bound
SocketsHeld == <<rtp.port>> \o (IF pc = "update" /\ fut.at = "select" THEN <<fut.port>> ELSE <<>>)

InitBind ==
    /\ streamer = PacketStreamer_new
    /\ stream = Top
    /\ \E port \in ReadyPorts : rtp = [Socket_new(SSRC(1), 1) EXCEPT !.port = port]
    /\ wire = <<>>
    /\ pc = "run"
    /\ result = NoResult
    /\ vstu = NoEvent
    /\ vseu = NoEvent
    /\ state = [playing |-> FALSE, ready |-> TRUE,
                voice_state |-> [own |-> TRUE, channel |-> TRUE]]
    /\ receivers = TRUE
    /\ gateway_rx = <<>>
    /\ \E n \in 0..MaxFrames : command_rx = <<Command("Play", 1, n)>>
    /\ handle_alive = TRUE
    /\ events = <<Event("Ready")>>
    /\ speaking = <<>>
    /\ statuses = <<>>
    /\ ended = 0
    /\ plays = 1
    /\ ret = [call |-> "none", result |-> "none"]
    /\ conn = [NoConnection EXCEPT !.session = Session(1)]
    /\ fut = NoFuture
    /\ outbox = <<>>
    /\ out = Out("none", WsError("none", 0))
    /\ now = 0
    /\ next_packet = 0
    /\ burst = NoBurst
    /\ Unused

NextBind ==
    \/ Stream
    \/ server_update_handshake
    \/ handshake_bind
    \/ server_update_connected
    \/ command_recv /\ Abstracted
    \/ on_status /\ Abstracted
    \/ run /\ Abstracted
    \/ run_closed /\ Abstracted
    \/ unwind /\ Abstracted
    \/ Player_voice_server_update_of(ServerUpdates) /\ Abstracted
    \/ Player_drop /\ Abstracted

SpecBind == InitBind /\ [][NextBind]_vars



\* ============================================= Encryptor specification
\* Encryptor::encrypt alone (player/conn/rtp/crypto.rs), applied once to a
\* stamped packet.  The packet is its buffer of VOICE_PACKET_MAX bytes and
\* its payload_len; `plain` and `nonce` remember the payload before the call
\* and the nonce the call sealed with.
VOICE_PACKET_MAX == 1460
TAG_SIZE == 16
NONCE_SIZE == 24
HEADER_LEN == 12 + TAG_SIZE

Zeros(n) == [i \in 1..n |-> 0]

\* dst[from..from + len(src)].copy_from_slice(src), from counted from 0
Splice(dst, from, src) ==
    [i \in 1..Len(dst) |->
        IF i > from /\ i <= from + Len(src) THEN src[i - from] ELSE dst[i]]

\* Packet::header, payload_mut()[..payload_len] and Packet::as_ref
Packet_header(p) == SubSeq(p.pkt, 1, HEADER_LEN)
Packet_payload(p) == SubSeq(p.pkt, HEADER_LEN + 1, HEADER_LEN + p.payload_len)
Packet_as_ref(p) == SubSeq(p.pkt, 1, HEADER_LEN + p.payload_len)

\* XSalsa20Poly1305 stands behind three operators: a keystream that depends
\* on the key and on every byte of the nonce, a tag over key, nonce and
\* ciphertext, and the opening, which fails on another tag
RECURSIVE Weigh(_, _)
Weigh(nonce, n) == IF n = 0 THEN 0 ELSE (n * nonce[n] + Weigh(nonce, n - 1)) % 251
Mix(key, nonce) == (key + Weigh(nonce, Len(nonce))) % 256
Seal(key, nonce, plain) ==
    LET m == Mix(key, nonce) IN [i \in 1..Len(plain) |-> (plain[i] + m + i) % 256]
Tag(key, nonce, ct) ==
    LET m == Mix(key, nonce)
        e == IF ct = <<>> THEN 0 ELSE ct[1] + ct[Len(ct)]
    IN [j \in 1..TAG_SIZE |-> (m * j + Len(ct) + e) % 256]
Open(key, nonce, ct, tag) ==
    LET m == Mix(key, nonce)
    IN IF tag = Tag(key, nonce, ct)
       THEN [ok |-> TRUE, plain |-> [i \in 1..Len(ct) |-> (ct[i] - m - i) % 256]]
       ELSE [ok |-> FALSE, plain |-> <<>>]

\* a slice whose range ends past its array: the call panics, the packet is
\* as it was
Panicked(e, p) == [encryptor |-> e, pkt |-> [p EXCEPT !.result = "Panic"]]

\* the part the three modes share: encrypt_in_place_detached over the
\* payload, the tag written to its slot, `tail` appended behind the payload
\* and payload_len grown by it
SealInPlace(e, p, nonce, tail) ==
    LET payload_len == p.payload_len
        ct == Seal(e.key, nonce, Packet_payload(p))
        sealed == Splice(Splice(p.pkt, HEADER_LEN, ct), 12, Tag(e.key, nonce, ct))
    IN IF HEADER_LEN + payload_len + Len(tail) > Len(p.pkt)
       THEN Panicked(e, [p EXCEPT !.pkt = sealed, !.nonce = nonce])
       ELSE [encryptor |-> e,
             pkt |-> [p EXCEPT !.pkt = Splice(sealed, HEADER_LEN + payload_len, tail),
                               !.payload_len = payload_len + Len(tail),
                               !.nonce = nonce,
                               !.result = "Ok"]]

\* Encryptor::encrypt; rnd is what the Suffix generator fills the nonce with
Encryptor_encrypt(e, p, rnd) ==
    LET called == [e EXCEPT !.calls = e.calls + 1]
    IN CASE e.mode = "Normal" ->
              IF HEADER_LEN > NONCE_SIZE
              THEN Panicked(called, p)
              ELSE SealInPlace(called, p,
                               Splice(Zeros(NONCE_SIZE), 0, Packet_header(p)), <<>>)
         [] e.mode = "Suffix" -> SealInPlace(called, p, rnd, rnd)
         [] e.mode = "Lite" ->
              LET nonce == Splice(Zeros(NONCE_SIZE), 0, BE32(e.next_nonce))
              IN SealInPlace([called EXCEPT !.next_nonce = Add32(e.next_nonce, 1)],
                             p, nonce, SubSeq(nonce, 1, 4))

\* bytes a generator may deliver
Randoms == {[i \in 1..NONCE_SIZE |-> (b * i) % 256] : b \in {0, 1, 37}}

\* payload lengths: empty, short, and the last ones that leave room for the
\* 4 and the 24 trailing bytes
PayloadLens ==
    {0, 1, 3, VOICE_PACKET_MAX - HEADER_LEN - NONCE_SIZE,
     VOICE_PACKET_MAX - HEADER_LEN - NONCE_SIZE + 1,
     VOICE_PACKET_MAX - HEADER_LEN - 4, VOICE_PACKET_MAX - HEADER_LEN}

\* Packet::default, stamped by a socket that made n sends, with a payload
\* of payload_len bytes
Filled(n, payload_len, fill) ==
    LET s == SocketAfter(n, SSRC(1), 1)
        hdr == <<128, 120>> \o BE16(s.sequence) \o BE32(s.timestamp) \o BE32(s.ssrc)
        plain == [i \in 1..payload_len |-> (fill + i) % 256]
    IN [pkt |-> Splice(Splice(Zeros(VOICE_PACKET_MAX), 0, hdr), HEADER_LEN, plain),
        payload_len |-> payload_len, plain |-> plain, nonce |-> <<>>, result |-> "none"]

InitCrypto ==
    /\ streamer = PacketStreamer_new
    /\ stream = Top
    /\ rtp = Socket_new(SSRC(1), 1)
    /\ wire = <<>>
    /\ pc = "run"
    /\ result = NoResult
    /\ vstu = NoEvent
    /\ vseu = NoEvent
    /\ state = [playing |-> FALSE, ready |-> TRUE,
                voice_state |-> [own |-> TRUE, channel |-> TRUE]]
    /\ receivers = TRUE
    /\ gateway_rx = <<>>
    /\ command_rx = <<>>
    /\ handle_alive = TRUE
    /\ events = <<>>
    /\ speaking = <<>>
    /\ statuses = <<>>
    /\ ended = 0
    /\ plays = 0
    /\ ret = [call |-> "none", result |-> "none"]
    /\ conn = NoConnection
    /\ fut = NoFuture
    /\ outbox = <<>>
    /\ out = Out("none", WsError("none", 0))
    /\ now = 0
    /\ next_packet = 0
    /\ burst = NoBurst
    /\ \E mode \in {"Normal", "Suffix", "Lite"}, key \in {0, 9}, c \in {0, 1, U16 - 1} :
          /\ mode # "Lite" => c = 0
          /\ encryptor = [mode |-> mode, key |-> key,
                          next_nonce |-> [hi |-> c, lo |-> c], calls |-> 0]
    /\ \E n \in {0, 65534}, payload_len \in PayloadLens, fill \in {0, 200} :
          pkt = Filled(n, payload_len, fill)
    /\ UnusedPayload

\* one call of encrypt on the packet
Encrypts ==
    /\ pkt.result = "none"
    /\ \E rnd \in Randoms :
          LET r == Encryptor_encrypt(encryptor, pkt, rnd)
          IN /\ encryptor' = r.encryptor
             /\ pkt' = r.pkt
    /\ UNCHANGED <<streamerVars, socketVars, taskVars, chanVars, connVars, timeVars,
                   input, decoded>>

encrypt_normal ==
    /\ encryptor.mode = "Normal"
    /\ Encrypts

encrypt_suffix ==
    /\ encryptor.mode = "Suffix"
    /\ Encrypts

encrypt_lite ==
    /\ encryptor.mode = "Lite"
    /\ Encrypts

NextCrypto ==
    \/ encrypt_normal
    \/ encrypt_suffix
    \/ encrypt_lite

SpecCrypto == InitCrypto /\ [][NextCrypto]_vars


\* ============================================== payload specification
\* The two-phase decoding of a gateway payload (voice/ws/payload.rs) and the
\* serialisation of a GatewayEvent.  A text is a sequence of pieces: each
\* byte the scan or the JSON grammar looks at is a piece of its own (quote,
\* colon, comma, braces, brackets, backslash, digits, white space and the
\* letters o, p, d), and a run of other letters is one piece.
Q == "\""
Whitespace == {" ", "\n", "\t"}
Digits == <<"0", "1", "2", "3", "4", "5", "6", "7", "8", "9">>

\* JSON values
JNull == [kind |-> "null", n |-> 0, s |-> <<>>, members |-> <<>>]
JNum(n) == [kind |-> "num", n |-> n, s |-> <<>>, members |-> <<>>]
JStr(s) == [kind |-> "str", n |-> 0, s |-> s, members |-> <<>>]
JArr(elems) == [kind |-> "arr", n |-> 0, s |-> <<>>, members |-> elems]
JObj(members) == [kind |-> "obj", n |-> 0, s |-> <<>>, members |-> members]
Member(key, val) == [key |-> key, val |-> val]

\* Option<u8>
None == [some |-> FALSE, op |-> 0]
Some(n) == [some |-> TRUE, op |-> n]

At(t, i) == IF i >= 1 /\ i <= Len(t) THEN t[i] ELSE ""
IsDigit(c) == \E k \in 1..10 : Digits[k] = c
DigitVal(c) == (CHOOSE k \in 1..10 : Digits[k] = c) - 1

RECURSIVE Decimal(_)
Decimal(n) == IF n < 10 THEN <<Digits[n + 1]>> ELSE Decimal(n \div 10) \o <<Digits[(n % 10) + 1]>>

RECURSIVE ValueOf(_)
ValueOf(s) ==
    IF s = <<>> THEN 0 ELSE 10 * ValueOf(SubSeq(s, 1, Len(s) - 1)) + DigitVal(s[Len(s)])

Least(S) == CHOOSE k \in S : \A j \in S : k <= j

\* str::find: the offset (from 0) of the first match of pat in t[from..],
\* counted from `from`, or -1
StrFind(t, from, pat) ==
    LET hits == {k \in from..(Len(t) - Len(pat)) : SubSeq(t, k + 1, k + Len(pat)) = pat}
    IN IF hits = {} THEN -1 ELSE Least(hits) - from

\* str::find with the pattern &[',', '}']
FindAny(t, from, cs) ==
    LET hits == {k \in from..(Len(t) - 1) : t[k + 1] \in cs}
    IN IF hits = {} THEN -1 ELSE Least(hits) - from

\* str::trim
RECURSIVE Trim(_)
Trim(s) ==
    IF s = <<>> THEN s
    ELSE IF s[1] \in Whitespace THEN Trim(Tail(s))
    ELSE IF s[Len(s)] \in Whitespace THEN Trim(SubSeq(s, 1, Len(s) - 1))
    ELSE s

\* str::parse::<u8>: an optional +, then digits only, at most 255
ParseU8(s) ==
    LET ds == IF s # <<>> /\ s[1] = "+" THEN Tail(s) ELSE s
    IN IF ds # <<>> /\ Len(ds) <= 3 /\ (\A k \in 1..Len(ds) : IsDigit(ds[k])) /\ ValueOf(ds) <= 255
       THEN Some(ValueOf(ds))
       ELSE None

\* find_opcode reading one byte behind the colon
find_opcode_one_byte(text) ==
    LET at == StrFind(text, 0, <<Q, "o", "p", Q, ":">>)
    IN IF at < 0 THEN None ELSE ParseU8(SubSeq(text, at + 6, at + 6))

\* GatewayEventDeserializer::find_opcode
find_opcode(text) ==
    LET at == StrFind(text, 0, <<Q, "o", "p", Q, ":">>)
        from == at + 5
        to == FindAny(text, from, {",", "}"})
    IN IF at < 0 \/ to < 0 THEN None
       ELSE ParseU8(Trim(SubSeq(text, from + 1, from + to)))

\* ---- serde_json reading a text
Bad == [ok |-> FALSE, end |-> 0, val |-> JNull]
Good(end, val) == [ok |-> TRUE, end |-> end, val |-> val]

\* the first place from i on that holds no white space
SkipWs(t, i) == Least({k \in i..(Len(t) + 1) : At(t, k) \notin Whitespace} \cup {Len(t) + 1})

\* the closing quote of the string whose content begins at i, or 0
RECURSIVE StringEnd(_, _)
StringEnd(t, i) ==
    IF i > Len(t) THEN 0
    ELSE IF t[i] = "\\" THEN StringEnd(t, i + 2)
    ELSE IF t[i] = Q THEN i
    ELSE StringEnd(t, i + 1)

RECURSIVE DigitsEnd(_, _)
DigitsEnd(t, i) == IF IsDigit(At(t, i)) THEN DigitsEnd(t, i + 1) ELSE i

RECURSIVE ParseValue(_, _), ParseMembers(_, _, _), ParseElems(_, _, _)
ParseValue(t, i) ==
    CASE At(t, i) = Q ->
            LET e == StringEnd(t, i + 1)
            IN IF e = 0 THEN Bad ELSE Good(e + 1, JStr(SubSeq(t, i + 1, e - 1)))
      [] At(t, i) = "{" -> ParseMembers(t, i + 1, <<>>)
      [] At(t, i) = "[" -> ParseElems(t, i + 1, <<>>)
      [] At(t, i) = "null" -> Good(i + 1, JNull)
      [] IsDigit(At(t, i)) ->
            LET e == DigitsEnd(t, i) IN Good(e, JNum(ValueOf(SubSeq(t, i, e - 1))))
      [] OTHER -> Bad

ParseMembers(t, i, acc) ==
    LET j == SkipWs(t, i)
        e == StringEnd(t, j + 1)
        c == SkipWs(t, e + 1)
        v == ParseValue(t, SkipWs(t, c + 1))
        k == SkipWs(t, v.end)
        m == Append(acc, Member(SubSeq(t, j + 1, e - 1), v.val))
    IN IF At(t, j) = "}" /\ acc = <<>> THEN Good(j + 1, JObj(acc))
       ELSE IF At(t, j) # Q \/ e = 0 \/ At(t, c) # ":" THEN Bad
       ELSE IF ~v.ok THEN Bad
       ELSE IF At(t, k) = "," THEN ParseMembers(t, k + 1, m)
       ELSE IF At(t, k) = "}" THEN Good(k + 1, JObj(m))
       ELSE Bad

ParseElems(t, i, acc) ==
    LET j == SkipWs(t, i)
        v == ParseValue(t, j)
        k == SkipWs(t, v.end)
        m == Append(acc, Member(<<>>, v.val))
    IN IF At(t, j) = "]" /\ acc = <<>> THEN Good(j + 1, JArr(acc))
       ELSE IF ~v.ok THEN Bad
       ELSE IF At(t, k) = "," THEN ParseElems(t, k + 1, m)
       ELSE IF At(t, k) = "]" THEN Good(k + 1, JArr(m))
       ELSE Bad

\* serde_json::from_str: one value and nothing but white space behind it
from_str(t) ==
    LET v == ParseValue(t, SkipWs(t, 1))
    IN IF v.ok /\ SkipWs(t, v.end) = Len(t) + 1 THEN v ELSE Bad

\* ---- serde_json::to_string: no white space, members in the order written
RECURSIVE to_string(_), Joined(_, _)
to_string(v) ==
    CASE v.kind = "null" -> <<"null">>
      [] v.kind = "num" -> Decimal(v.n)
      [] v.kind = "str" -> <<Q>> \o v.s \o <<Q>>
      [] v.kind = "arr" -> <<"[">> \o Joined(v.members, FALSE) \o <<"]">>
      [] OTHER -> <<"{">> \o Joined(v.members, TRUE) \o <<"}">>

Joined(ms, keyed) ==
    IF ms = <<>> THEN <<>>
    ELSE (IF keyed THEN <<Q>> \o ms[1].key \o <<Q, ":">> ELSE <<>>)
         \o to_string(ms[1].val)
         \o (IF Len(ms) > 1 THEN <<",">> \o Joined(Tail(ms), keyed) ELSE <<>>)

\* ---- GatewayEvent
\* OpCode as u8 (GatewayEvent::op with repr(u8))
GatewayEvent_op(variant) ==
    CASE variant = "Identify" -> 0
      [] variant = "SelectProtocol" -> 1
      [] variant = "Ready" -> 2
      [] variant = "Heartbeat" -> 3
      [] variant = "SessionDescription" -> 4
      [] variant = "Speaking" -> 5
      [] variant = "HeartbeatAck" -> 6
      [] variant = "Resume" -> 7
      [] variant = "Hello" -> 8
      [] variant = "Resumed" -> 9
      [] variant = "ClientConnect" -> 12
      [] variant = "ClientDisconnect" -> 13

\* OpCode::deserialize from a u8
OpCode_deserialize(n) ==
    IF \E v \in OpCode : GatewayEvent_op(v) = n
    THEN CHOOSE v \in OpCode : GatewayEvent_op(v) = n
    ELSE "unknown"

\* the fields of the payload structs in the order declared: name, the kinds
\* of JSON value the field's type reads, and whether the field may be absent
Field(name, kinds, optional) == [name |-> <<name>>, kinds |-> kinds, optional |-> optional]
Id == {"num", "str"}
Fields(variant) ==
    CASE variant = "Identify" ->
            <<Field("server_id", Id, FALSE), Field("user_id", Id, FALSE),
              Field("session_id", {"str"}, FALSE), Field("token", {"str"}, FALSE)>>
      [] variant = "SelectProtocol" ->
            <<Field("protocol", {"str"}, FALSE), Field("data", {"obj"}, FALSE)>>
      [] variant = "Ready" ->
            <<Field("ssrc", {"num"}, FALSE), Field("ip", {"str"}, FALSE),
              Field("port", {"num"}, FALSE), Field("modes", {"arr"}, FALSE)>>
      [] variant = "SessionDescription" ->
            <<Field("mode", {"str"}, FALSE), Field("secret_key", {"arr"}, FALSE)>>
      [] variant = "Speaking" ->
            <<Field("speaking", {"num"}, FALSE), Field("delay", {"num", "null"}, TRUE),
              Field("ssrc", {"num"}, FALSE)>>
      [] variant = "Resume" ->
            <<Field("server_id", Id, FALSE), Field("session_id", {"str"}, FALSE),
              Field("token", {"str"}, FALSE)>>
      [] variant = "Hello" -> <<Field("heartbeat_interval", {"num"}, FALSE)>>
      [] variant = "ClientConnect" ->
            <<Field("audio_ssrc", {"num"}, FALSE), Field("user_id", Id, FALSE),
              Field("video_ssrc", {"num"}, FALSE)>>
      [] variant = "ClientDisconnect" -> <<Field("user_id", Id, FALSE)>>
      [] OTHER -> <<>>

Lookup(members, key) == {k \in 1..Len(members) : members[k].key = key}

\* T::deserialize for the payload of a variant: the newtypes read a number,
\* Resumed reads anything, a struct reads an object that names each field
\* once with a value of its type; unknown members are passed over
Payload_deserialize(variant, v) ==
    CASE variant \in {"Heartbeat", "HeartbeatAck"} -> v.kind = "num"
      [] variant = "Resumed" -> TRUE
      [] OTHER ->
            /\ v.kind = "obj"
            /\ \A f \in 1..Len(Fields(variant)) :
                  LET field == Fields(variant)[f]
                      at == Lookup(v.members, field.name)
                  IN /\ Cardinality(at) <= 1
                     /\ at = {} => field.optional
                     /\ \A k \in at : v.members[k].val.kind \in field.kinds

\* the payload as the variant keeps it and Serialize writes it: the declared
\* fields in their order, an absent Option as null; Resumed keeps nothing
\* and writes null
Payload_fields(variant, v) ==
    IF variant = "Resumed" THEN JNull
    ELSE IF Fields(variant) = <<>> THEN v
    ELSE JObj([f \in 1..Len(Fields(variant)) |->
                 LET field == Fields(variant)[f]
                     at == Lookup(v.members, field.name)
                 IN Member(field.name,
                           IF at = {} THEN JNull ELSE v.members[CHOOSE k \in at : TRUE].val)])

NoGatewayEvent == [ok |-> FALSE, variant |-> "none", d |-> JNull]
GatewayEvent(variant, d) == [ok |-> TRUE, variant |-> variant, d |-> d]

\* GatewayEventVisitor::get_d under serde_json's struct reader: the members
\* are read in the order of the text up to the first d, whose value is
\* returned; the reader then wants the closing brace
get_d(variant, members) ==
    LET at == Lookup(members, <<"d">>)
        first == Least(at)
    IN IF at = {} \/ first # Len(members) THEN NoGatewayEvent
       ELSE IF ~Payload_deserialize(variant, members[first].val) THEN NoGatewayEvent
       ELSE GatewayEvent(variant, Payload_fields(variant, members[first].val))

\* DeserializeSeed for GatewayEventDeserializer: visit_map with the scanned
\* opcode
deserialize(op, text) ==
    LET v == ParseValue(text, SkipWs(text, 1))
        variant == OpCode_deserialize(op)
    IN IF ~v.ok \/ v.val.kind # "obj" \/ variant = "unknown" THEN NoGatewayEvent
       ELSE get_d(variant, v.val.members)

\* Serialize for GatewayEvent, through serde_json::to_string
serialize(ev) ==
    to_string(JObj(<<Member(<<"o", "p">>, JNum(GatewayEvent_op(ev.variant))),
                     Member(<<"d">>, ev.d)>>))

\* ---- the payloads decoded
\* a payload a server may send for a variant
Sample(variant) ==
    CASE variant \in {"Heartbeat", "HeartbeatAck"} -> JNum(1234)
      [] variant = "Resumed" -> JNull
      [] variant = "SelectProtocol" ->
            JObj(<<Member(<<"protocol">>, JStr(<<"u", "d", "p">>)),
                   Member(<<"data">>,
                          JObj(<<Member(<<"address">>, JStr(<<"1", ".", "2">>)),
                                 Member(<<"port">>, JNum(80)),
                                 Member(<<"mode">>, JStr(<<"xsalsa20_poly1305">>))>>))>>)
      [] OTHER ->
            JObj([f \in 1..Len(Fields(variant)) |->
                    LET field == Fields(variant)[f]
                    IN Member(field.name,
                              IF "str" \in field.kinds THEN JStr(<<"a", ",", "}", "\\", Q, "o", "p", "\\", Q, ":", "3">>)
                              ELSE IF "num" \in field.kinds THEN JNum(7)
                              ELSE JArr(<<Member(<<>>, JNum(1)), Member(<<>>, JNum(2))>>))])

\* other values of d: an object that has a member op of its own
Nested == JObj(<<Member(<<"o", "p">>, JNum(3))>>)

\* the white space a layout puts after the opening brace, before and after a
\* colon, before and after a comma, and before the closing brace
Layouts ==
    {[open |-> o, colon |-> c, value |-> v, comma |-> m, next |-> n, close |-> e] :
        o \in {<<>>}, c \in {<<>>, <<" ">>}, v \in {<<>>, <<" ">>},
        m \in {<<>>, <<" ">>}, n \in {<<>>, <<"\n", " ">>}, e \in {<<>>}}

\* the object {first, second} written with a layout
Laid(first, second, l) ==
    <<"{">> \o l.open
    \o <<Q>> \o first.key \o <<Q>> \o l.colon \o <<":">> \o l.value \o to_string(first.val)
    \o l.comma \o <<",">> \o l.next
    \o <<Q>> \o second.key \o <<Q>> \o l.colon \o <<":">> \o l.value \o to_string(second.val)
    \o l.close \o <<"}">>

\* opcodes a text may name: the twelve of OpCode, and two that are none
OpNumbers == {0, 1, 2, 3, 4, 5, 6, 7, 8, 9, 12, 13, 10, 255}

Texts ==
    UNION {{Laid(Member(<<"o", "p">>, JNum(n)), Member(<<"d">>, d), l) :
               d \in {Sample(OpCode_deserialize(n)), Nested}, l \in Layouts} :
           n \in OpNumbers}
    \cup
    {Laid(Member(<<"d">>, d), Member(<<"o", "p">>, JNum(n)), l) :
        n \in {5, 9}, d \in {JNull, Nested}, l \in Layouts}

NotDecoded == [at |-> "text", scan |-> None, event |-> NoGatewayEvent, sent |-> NoGatewayEvent]

InitPayload ==
    /\ streamer = PacketStreamer_new
    /\ stream = Top
    /\ rtp = Socket_new(SSRC(1), 1)
    /\ wire = <<>>
    /\ pc = "run"
    /\ result = NoResult
    /\ vstu = NoEvent
    /\ vseu = NoEvent
    /\ state = [playing |-> FALSE, ready |-> TRUE,
                voice_state |-> [own |-> TRUE, channel |-> TRUE]]
    /\ receivers = TRUE
    /\ gateway_rx = <<>>
    /\ command_rx = <<>>
    /\ handle_alive = TRUE
    /\ events = <<>>
    /\ speaking = <<>>
    /\ statuses = <<>>
    /\ ended = 0
    /\ plays = 0
    /\ ret = [call |-> "none", result |-> "none"]
    /\ conn = NoConnection
    /\ fut = NoFuture
    /\ outbox = <<>>
    /\ out = Out("none", WsError("none", 0))
    /\ now = 0
    /\ next_packet = 0
    /\ burst = NoBurst
    /\ UnusedCrypto
    /\ input \in Texts
    /\ decoded = NotDecoded

PayloadIdle ==
    UNCHANGED <<streamerVars, socketVars, taskVars, chanVars, connVars, timeVars,
                encryptor, pkt>>

\* GatewayEventDeserializer::from_json
from_json ==
    /\ decoded.at = "text"
    /\ decoded' = [decoded EXCEPT !.at = "scanned", !.scan = find_opcode(input)]
    /\ UNCHANGED input
    /\ PayloadIdle

\* event.deserialize(&mut json) on the text that was scanned
deserialize_event ==
    /\ decoded.at = "scanned"
    /\ decoded.scan.some
    /\ decoded' = [decoded EXCEPT !.at = "decoded",
                                  !.event = deserialize(decoded.scan.op, input)]
    /\ UNCHANGED input
    /\ PayloadIdle

\* send: the event decoded is written out again
send_event ==
    /\ decoded.at = "decoded"
    /\ decoded.event.ok
    /\ ~decoded.sent.ok
    /\ input' = serialize(decoded.event)
    /\ decoded' = [NotDecoded EXCEPT !.sent = decoded.event]
    /\ PayloadIdle

NextPayload ==
    \/ from_json
    \/ deserialize_event
    \/ send_event

SpecPayload == InitPayload /\ [][NextPayload]_vars


\* ================================================================ claims

\* C1: the statuses PacketStreamer::stream returns alternate, beginning with
\* Started: the first one returned is Started and no status is returned twice
\* in a row, so the Started returned outnumber the Stopped by 0 or 1.
C1_StatusesAlternate ==
    /\ Len(statuses) = 1 => statuses[1] = "Started"
    /\ Len(statuses) = 2 => statuses[1] # statuses[2]

\* a stall ended the first run of audio and the source came back
C1_Witness == statuses = <<"Stopped", "Started">> /\ pc = "status"

\* C8: of two consecutive Socket::send calls on one socket that both complete,
\* the second datagram carries the first one's sequence plus 1 modulo 2^16 and
\* its timestamp plus 960 modulo 2^32, read big-endian from the header; every
\* datagram carries the connection's ssrc; the first send of a socket carries
\* sequence 0 and timestamp 0.
C8_ConsecutiveSends ==
    /\ \A i \in 1..Len(wire) :
          /\ SsrcOf(wire[i]) = SSRC(wire[i].gen)
          /\ wire[i].call = 1 => SeqOf(wire[i]) = 0 /\ TsOf(wire[i]) = [hi |-> 0, lo |-> 0]
    /\ (Len(wire) = 2 /\ wire[1].gen = wire[2].gen /\ wire[2].call = wire[1].call + 1) =>
          LET t1 == TsOf(wire[1])
              carry == IF t1.lo + 960 >= 65536 THEN 1 ELSE 0
          IN /\ SeqOf(wire[2]) = (SeqOf(wire[1]) + 1) % 65536
             /\ TsOf(wire[2]) = [hi |-> (t1.hi + carry) % 65536, lo |-> (t1.lo + 960) % 65536]

\* two sends in a row across the wrap of the sequence number
C8_Witness ==
    /\ Len(wire) = 2
    /\ wire[2].call = wire[1].call + 1
    /\ SeqOf(wire[1]) = 65535
    /\ SeqOf(wire[2]) = 0

\* C2 (as the specification states it): a source that Play installed and that
\* reached its end is followed by a published Stopped when no error and no
\* further command intervenes; so the stream future is never parked on
\* pending(), which never completes, while an ended source's Stopped is
\* still unpublished.
C2_EndedSourceIsStopped == ~(pc = "run" /\ stream.at = "pending" /\ ended # 0)

\* C3 (as the specification states it): handling Started writes Speaking=1
\* with the status's ssrc and publishes exactly one Playing, whatever the
\* playing flag held.
C3_StartedPublishesPlaying ==
    [][(pc = "status" /\ result.type = "Started" /\ pc' = "run") =>
          /\ speaking' = Append(speaking, Speaking(1, result.ssrc, rtp.gen))
          /\ events' = Append(events, Event("Playing"))]_vars

\* C4: handling Stopped writes Speaking=0 with the status's ssrc; it publishes
\* exactly one Stopped when the streamer holds no source and no event when it
\* holds one.
C4_StoppedHandled ==
    [][(pc = "status" /\ result.type = "Stopped" /\ pc' = "run") =>
          /\ speaking' = Append(speaking, Speaking(0, result.ssrc, rtp.gen))
          /\ events' = IF streamer.source = NoSource
                       THEN Append(events, Event("Stopped"))
                       ELSE events]_vars

\* Stopped was handled with the streamer empty and the event went out
C4_Witness ==
    /\ pc = "run"
    /\ statuses # <<>>
    /\ Last(statuses) = "Stopped"
    /\ Last(speaking).speaking = 0
    /\ Last(events) = Event("Stopped")

\* C5 (as the specification states it): a task whose initialisation failed
\* has delivered exactly one Error event, carrying CannotJoin or Timeout,
\* when it exits.
C5_InitFailurePublished ==
    (pc = "done" /\ result.type = "InitErr") =>
        /\ Len(events) = 1
        /\ events[1].kind = "Error"
        /\ events[1].err \in {"CannotJoin", "Timeout"}

C7_ClosedAfterExit ==
    /\ ret.call # "none" => ret.result = "PlayerClosed"
    /\ pc = "done" => gateway_rx = <<>> /\ command_rx = <<>>

\* play called after the task's exit
C7_Witness == pc = "done" /\ ret = [call |-> "play", result |-> "PlayerClosed"]

C10_SentOnceInSequence ==
    /\ \A i \in 1..Len(wire) : wire[i].enc = 1
    /\ (Len(wire) = 2 /\ wire[1].gen = wire[2].gen) =>
          SeqOf(wire[2]) = (SeqOf(wire[1]) + 1) % 65536

\* the types of what the Connection put on the network, in order
Types(ob) == [i \in 1..Len(ob) |-> ob[i].type]

\* the positions of a future inside resume
Resuming == {"resume_connect", "resume_send", "resume_wait"}

\* C11 (as the specification states it): whenever the select polls a new recv
\* future on a usable websocket, after the previous one returned or was
\* dropped at whatever await, the resume handshake of that websocket is not
\* begun or is complete: no Resume is out whose Resumed is unread.
C11_RecvCancelSafe ==
    (pc = "run" /\ fut = RecvTop /\ conn.open) => conn.handshake = "done"

\* C12: Identify is written before anything is read, SelectProtocol only
\* after Hello and Ready were both read and the address was discovered; when
\* connect returns Ok it has opened one websocket and written exactly
\* Identify, SelectProtocol; and connect fails only when the websocket
\* failed or ended, the UDP exchange failed, the deadline passed or Ready
\* offered no supported mode, never on the order or the company in which
\* Hello and Ready arrive.
C12_HandshakeOrder ==
    [][/\ (pc' = "connect" /\ fut'.at \in {"connect_async", "identify"}) => conn'.reads = 0
       /\ (pc' = "connect" /\ fut'.at \in {"hello_ready", "udp", "select"}) =>
              Types(outbox') = <<"Open", "Identify">>
       /\ (pc' = "connect" /\ fut'.at \in {"select", "desc"}) => fut'.hello /\ fut'.got_ready
       /\ (pc = "connect" /\ pc' = "run") =>
              /\ out' = Out("Ok", WsError("none", 0))
              /\ fut.at = "desc"
              /\ Types(outbox') = <<"Open", "Identify", "SelectProtocol">>
       /\ (pc = "connect" /\ pc' = "done") =>
              \/ ~conn'.open
              \/ out'.err.kind \in {"Io", "IpDiscovery"}
              \/ result'.err = "Timeout"
              \/ fut.at = "select" /\ \A i \in 1..Len(fut.ready) : fut.ready[i] = "Other"]_vars

\* connect returned Ok although Ready came before Hello and another event in
\* between
C12_Witness ==
    /\ pc = "run"
    /\ out.type = "Ok"
    /\ conn.reads = 4
    /\ Types(outbox) = <<"Open", "Identify", "SelectProtocol">>

\* C13: when Ready offers at least one of Lite, Suffix, Normal, the mode
\* written in SelectProtocol, which is the mode the Encryptor is built with,
\* is Lite if the list holds it, else Suffix if it holds it, else Normal,
\* wherever in the list it stands.
C13_ModePreference ==
    (pc = "connect" /\ fut.at = "desc") =>
        LET offered == {fut.ready[i] : i \in 1..Len(fut.ready)}
            sent == Last(outbox)
        IN /\ sent.type = "SelectProtocol"
           /\ sent.mode = conn.mode
           /\ conn.mode = IF "Lite" \in offered THEN "Lite"
                          ELSE IF "Suffix" \in offered THEN "Suffix"
                          ELSE "Normal"
           /\ conn.mode \in offered

\* Lite offered after Normal is the mode selected
C13_Witness ==
    /\ pc = "connect"
    /\ fut.at = "desc"
    /\ fut.ready = <<"Normal", "Lite">>
    /\ Last(outbox).mode = "Lite"

\* C14 (as the specification states it): when Ready offered none of Lite,
\* Suffix, Normal, connect returns the error UnsupportedEncryptionMode, a
\* protocol error, and has written no SelectProtocol.
C14_UnsupportedModeIsError ==
    [][(/\ pc = "connect"
        /\ fut.at = "select"
        /\ \A i \in 1..Len(fut.ready) : fut.ready[i] = "Other"
        /\ out' # out) =>
           /\ out' = Out("Err", WsError("Protocol", 0))
           /\ outbox' = outbox]_vars

\* C15 (as the specification states it): from the resumable error to the
\* return of resume the Socket's ssrc, sequence and timestamp stay as they
\* were.
C15_CountersFrozenAcrossResume ==
    [][(fut.at \in Resuming /\ pc' # "done") =>
          /\ rtp'.ssrc = rtp.ssrc
          /\ rtp'.sequence = rtp.sequence
          /\ rtp'.timestamp = rtp.timestamp]_vars

\* C15 (amended): resume opens a new websocket to the session's endpoint and
\* writes Resume with the saved guild_id, session_id and token; it never
\* rebuilds or touches the Socket, whose ssrc stays and whose sequence and
\* timestamp move only by the packets the stream branch sends while recv is
\* resuming, one step of 1 and 960 for each; inside send, where nothing runs
\* beside the resume, they stay as they were.
C15_ResumeKeepsSocket ==
    [][(fut.at \in Resuming /\ pc' # "done") =>
          /\ rtp'.ssrc = rtp.ssrc
          /\ rtp'.gen = rtp.gen
          /\ conn'.session = conn.session
          /\ (conn' # conn \/ outbox' # outbox \/ pc = "status") =>
                 rtp'.sequence = rtp.sequence /\ rtp'.timestamp = rtp.timestamp
          /\ (rtp'.sequence # rtp.sequence \/ rtp'.timestamp # rtp.timestamp) =>
                 /\ rtp'.sequence = (rtp.sequence + 1) % 65536
                 /\ rtp'.timestamp = Add32(rtp.timestamp, 960)
          /\ (fut.at = "resume_connect" /\ outbox' # outbox) =>
                 /\ Last(outbox').type = "Open"
                 /\ Last(outbox').endpoint = outbox[1].endpoint
                 /\ Last(outbox').wss = conn.wss + 1
          /\ (fut.at = "resume_send" /\ outbox' # outbox) =>
                 /\ Last(outbox').type = "Resume"
                 /\ Last(outbox').wss = conn.wss
                 /\ Last(outbox').guild_id = outbox[2].guild_id
                 /\ Last(outbox').session_id = outbox[2].session_id
                 /\ Last(outbox').token = outbox[2].token]_vars

\* a resume inside recv completed while the stream branch had sent a packet
C15_Witness ==
    /\ pc = "run"
    /\ conn.wss = 2
    /\ conn.handshake = "done"
    /\ Last(outbox).type = "Resume"
    /\ rtp.sent > 0

\* C16 (as the specification states it): no call of the Connection returns a
\* protocol error, whatever it was doing when the payload arrived.
C16_ProtocolErrorSkipped == ~(out.type = "Err" /\ out.err.kind = "Protocol")

\* wait_for_gateway takes a VoiceServerUpdate from the gateway channel
TakesServerUpdate ==
    /\ pc = "wait_for_gateway"
    /\ gateway_rx # <<>>
    /\ Head(gateway_rx).type = "VoiceServerUpdate"
    /\ gateway_rx' = Tail(gateway_rx)

\* the Connection is rebuilt: a new Socket, Speaking=1 with its ssrc written
\* when the streamer is streaming, the streamer as it was, the task back in
\* the select
Rebuilt ==
    /\ pc' = "run"
    /\ rtp'.gen = rtp.gen + 1
    /\ rtp'.sequence = 0
    /\ streamer' = streamer
    /\ events' = events
    /\ speaking' = IF is_streaming(streamer)
                   THEN Append(speaking, Speaking(1, rtp'.ssrc, rtp'.gen))
                   ELSE speaking

C18_LeftChannelIsDisconnected ==
    [][(/\ pc = "wait_for_gateway"
        /\ gateway_rx # <<>>
        /\ Head(gateway_rx) = VoiceStateUpdate(TRUE, FALSE)
        /\ gateway_rx' = Tail(gateway_rx)) =>
           pc' = "returned" /\ result'.err = "Disconnected"]_vars

\* a datagram is written to UDP
DatagramWritten == rtp'.sent = rtp.sent + 1

\* stream returns Started
StartedReturned == pc = "run" /\ pc' = "status" /\ result'.type = "Started"

\* the books of a stall: no audio datagram and at most one Stopped since the
\* read timed out; while waiting, the silence frames written, prepared and
\* still scheduled make 5, and Stopped was returned when none is scheduled any
\* more; once streaming again, 5 were written and Stopped returned once
StallBooks ==
    /\ burst.audio = 0
    /\ IF streamer.waiting_for_source
       THEN /\ burst.silence + streamer.silence_frames + (IF streamer.ready THEN 1 ELSE 0) = 5
            /\ streamer.ready => streamer.packet.payload = SILENCE_FRAME
            /\ burst.stopped = IF streamer.silence_frames = 0 THEN 1 ELSE 0
       ELSE /\ burst.silence = 5
            /\ burst.stopped = 1

\* C19: a read while streaming gives up only at next_packet + 200 ms or
\* later; from then to the next Started exactly 5 silence frames are written
\* and no audio, and Stopped is returned once, when the last of the 5 is
\* prepared; the packet of the frame the source delivers afterwards is
\* written only after Started was returned for it.
C19_StallSilence ==
    [][/\ (stream.at = "read" /\ is_streaming(streamer) /\ ~is_streaming(streamer')
             /\ has_source(streamer') /\ pc' = "run" /\ command_rx' = command_rx) =>
              now >= next_packet + 200 /\ burst'.stall /\ streamer'.silence_frames = 5
       /\ (burst'.stall /\ pc' \in {"run", "status"}) => StallBooks'
       /\ (burst.stall /\ StartedReturned) =>
              /\ burst.silence = 5 /\ burst.audio = 0 /\ burst.stopped = 1
              /\ wire' = wire
       /\ (DatagramWritten /\ Last(wire').payload # SILENCE_FRAME) =>
              Last(statuses) = "Started"]_vars

\* after a stall and its 5 silence frames the source delivered a frame,
\* Started was returned and then the frame's packet written
C19_Witness ==
    /\ burst.stall
    /\ is_streaming(streamer)
    /\ statuses = <<"Stopped", "Started">>
    /\ Len(wire) = 2
    /\ wire[1].payload = SILENCE_FRAME
    /\ wire[2].payload # SILENCE_FRAME

\* C20: each datagram written moves next_packet on by exactly 20 ms,
\* whatever the clock shows, and is written at or after next_packet;
\* next_packet changes otherwise only when Started is returned, to the clock
\* plus 20 ms; and the deadline of a prepared packet stays until it is written.
C20_DeadlinePacing ==
    [][/\ DatagramWritten => next_packet' = next_packet + 20 /\ now >= next_packet
       /\ StartedReturned => next_packet' = now + 20
       /\ (next_packet' # next_packet) => DatagramWritten \/ StartedReturned
       /\ (streamer.ready /\ ~DatagramWritten) => next_packet' = next_packet]_vars

\* two silence frames of a stall were written, both late by 200 ms and more,
\* and the deadline lies behind the clock
C20_Witness ==
    /\ burst.stall
    /\ burst.silence = 2
    /\ now > next_packet + TIMESTEP_LENGTH

\* C21: whenever the streamer's ready flag is set, the packet holds a payload
\* of more than 0 bytes, also after a stream future was dropped at an await.
C21_ReadyHasPayload == streamer.ready => Len(streamer.packet.payload) > 0

\* a send was cut short after the packet was sealed: the future is gone and
\* the packet is still marked ready
C21_Witness ==
    /\ streamer.ready
    /\ stream = Top
    /\ streamer.packet.enc > 0
    /\ pc = "run"

\* what a receiver that knows the mode takes from a datagram: the nonce, the
\* ciphertext between the tag and the appended bytes, and the tag
Appended(mode) == CASE mode = "Suffix" -> NONCE_SIZE [] mode = "Lite" -> 4 [] OTHER -> 0
NonceOf(mode, d) ==
    CASE mode = "Suffix" -> SubSeq(d, Len(d) - NONCE_SIZE + 1, Len(d))
      [] mode = "Lite" -> SubSeq(d, Len(d) - 3, Len(d)) \o Zeros(NONCE_SIZE - 4)
      [] OTHER -> SubSeq(d, 1, 12) \o Zeros(NONCE_SIZE - 12)
Received(mode, key, d) ==
    Open(key, NonceOf(mode, d), SubSeq(d, HEADER_LEN + 1, Len(d) - Appended(mode)),
         SubSeq(d, 13, HEADER_LEN))

\* C22: in each of the three modes and for every payload, encrypt returns Ok,
\* the nonce it sealed with can be rebuilt from the bytes sent (header bytes
\* 0..12, the last 24 bytes, or the last 4 bytes, padded with zeros to 24),
\* opening with that nonce and the key gives back the payload, and the
\* datagram is 28 + payload + 0, 24 or 4 bytes long.
C22_NonceFromDatagram ==
    encryptor.calls > 0 =>
        LET d == Packet_as_ref(pkt)
            r == Received(encryptor.mode, encryptor.key, d)
        IN /\ pkt.result = "Ok"
           /\ Len(d) = 28 + Len(pkt.plain) + Appended(encryptor.mode)
           /\ NonceOf(encryptor.mode, d) = pkt.nonce
           /\ r.ok
           /\ r.plain = pkt.plain

\* C23: in Normal mode encrypt returns Ok for every packet, the nonce it
\* seals with is the 12 bytes of the RTP header followed by 12 zero bytes
\* (the tag slot is no part of it), and nothing is appended to the payload.
C23_NormalNonceIsHeader ==
    (encryptor.mode = "Normal" /\ encryptor.calls > 0) =>
        /\ pkt.result = "Ok"
        /\ pkt.nonce = SubSeq(pkt.pkt, 1, 12) \o Zeros(12)
        /\ pkt.payload_len = Len(pkt.plain)

\* the opcode and the payload a full parse of a text finds: the members op
\* and d of its object
MemberOf(v, key) == v.members[Least(Lookup(v.members, key))].val
HasOpAndD(v) ==
    /\ v.ok
    /\ v.val.kind = "obj"
    /\ Lookup(v.val.members, <<"o", "p">>) # {}
    /\ Lookup(v.val.members, <<"d">>) # {}
    /\ MemberOf(v.val, <<"o", "p">>).kind = "num"

\* C24: for every valid payload, a JSON object with a numeric op and a d in
\* any order of the keys, with any legal white space and any string content,
\* find_opcode returns the op that a full parse of the text finds.
C24_ScanAgreesWithParse ==
    (decoded.at = "scanned" /\ HasOpAndD(from_str(input))) =>
        decoded.scan = Some(MemberOf(from_str(input).val, <<"o", "p">>).n)

\* a text as serde_json writes {op, d}: op first, no white space
Compact(t) ==
    LET v == from_str(t)
    IN /\ HasOpAndD(v)
       /\ Len(v.val.members) = 2
       /\ v.val.members[1].key = <<"o", "p">>
       /\ t = to_string(v.val)

\* C25: the decoding dispatches on the scanned opcode.  For a text {op: N,
\* d: a payload valid for N} with N one of the twelve opcodes, the scan gives
\* N and the decoding gives the variant whose op() is N; op 9 with d null
\* gives Resumed; and the text written for any GatewayEvent scans back to the
\* opcode of that event.
C25_DispatchOnOpcode ==
    LET v == from_str(input).val
        n == MemberOf(v, <<"o", "p">>).n
        variant == OpCode_deserialize(n)
        valid == variant # "unknown" /\ Payload_deserialize(variant, MemberOf(v, <<"d">>))
    IN /\ (decoded.at = "scanned" /\ Compact(input) /\ valid) => decoded.scan = Some(n)
       /\ (decoded.at = "decoded" /\ Compact(input) /\ valid) =>
             /\ decoded.event.ok
             /\ GatewayEvent_op(decoded.event.variant) = n
       /\ (decoded.at = "decoded" /\ Compact(input) /\ n = 9 /\ MemberOf(v, <<"d">>) = JNull) =>
             decoded.event = GatewayEvent("Resumed", JNull)
       /\ (decoded.sent.ok /\ decoded.at # "text") =>
             decoded.scan = Some(GatewayEvent_op(decoded.sent.variant))

C25_Witness ==
    /\ decoded.at = "decoded"
    /\ decoded.sent.ok
    /\ decoded.sent.variant = "ClientDisconnect"
    /\ Compact(input)
    /\ decoded.event = decoded.sent

\* C26: when the reply to the IP discovery has 74 bytes and the response
\* header but another SSRC than Ready announced, connect fails with
\* InvalidSsrc(expected, got), the task's error is Error::Rtp(IpDiscovery(..))
\* and the task has ended with exactly one Error event published.
C26_InvalidSsrcPublished ==
    (out.type = "Err" /\ out.err.kind = "IpDiscovery" /\ out.err.variant = "InvalidSsrc") =>
        /\ out.err.expected = SSRC(1)
        /\ out.err.got # SSRC(1)
        /\ pc = "done"
        /\ result.err = "Rtp"
        /\ Cardinality({k \in 1..Len(events) : events[k].kind = "Error"}) = 1

C28_StartedNeedsData ==
    [][/\ (pc = "run" /\ pc' = "status" /\ result'.type = "Started") =>
              /\ stream.at = "read"
              /\ streamer'.ready
              /\ Len(streamer'.packet.payload) > 0
       /\ (StreamPolled /\ stream.at = "close" /\ stream.end_wait /\ stream'.at # "close") =>
              streamer'.waiting_for_source]_vars

\* C29: after Stop or the end of the source during streaming, all five
\* trailing silence frames have been written to the socket when stream
\* returns Stopped, and so when the task writes Speaking=0.
C29_SilenceBeforeStopped ==
    [][/\ (pc = "run" /\ pc' = "status" /\ result'.type = "Stopped" /\ ~burst'.stall) =>
              burst'.silence = SilenceBurst
       /\ (pc = "status" /\ result.type = "Stopped" /\ ~burst.stall
             /\ speaking' = Append(speaking, Speaking(0, result.ssrc, rtp.gen))) =>
              burst.silence = SilenceBurst]_vars

\* the select takes a VoiceServerUpdate from the gateway channel
ServerUpdateTaken ==
    /\ pc = "run"
    /\ gateway_rx # <<>>
    /\ Head(gateway_rx).type = "VoiceServerUpdate"
    /\ gateway_rx' = Tail(gateway_rx)

\* C30: a VoiceServerUpdate taken in the main loop makes the task connect
\* with a Session whose endpoint and token are the update's and whose
\* session_id, guild_id and user_id are those of the Connection it holds; when
\* the connect succeeds the Connection and the Socket are both replaced, and
\* a streaming streamer has Speaking=1 written with the new ssrc on that step,
\* so before a datagram leaves the new Socket; when it fails nothing is
\* written.
C30_ServerUpdateReconnects ==
    [][/\ ServerUpdateTaken =>
              \/ /\ pc' = "run"
                 /\ conn'.session.endpoint = Head(gateway_rx).endpoint
                 /\ conn'.session.token = Head(gateway_rx).token
                 /\ conn'.session.session_id = conn.session.session_id
                 /\ conn'.session.guild_id = conn.session.guild_id
                 /\ conn'.session.user_id = conn.session.user_id
                 /\ rtp' = Socket_new(rtp'.ssrc, rtp.gen + 1)
                 /\ rtp'.ssrc # rtp.ssrc
                 /\ wire' = wire
                 /\ streamer' = streamer
                 /\ speaking' = IF is_streaming(streamer)
                                THEN Append(speaking, Speaking(1, rtp'.ssrc, rtp'.gen))
                                ELSE speaking
              \/ /\ pc' = "returned"
                 /\ wire' = wire
                 /\ speaking' = speaking
       /\ (rtp'.sent = rtp.sent + 1 /\ is_streaming(streamer)) =>
              \E i \in DOMAIN speaking : speaking[i] = Speaking(1, rtp.ssrc, rtp.gen)]_vars

\* the task takes a VoiceStateUpdate of another user from the gateway channel
OtherUserTaken ==
    /\ pc \in {"init", "run", "wait_for_gateway", "reconnect"}
    /\ gateway_rx # <<>>
    /\ Head(gateway_rx).type = "VoiceStateUpdate"
    /\ ~Head(gateway_rx).own
    /\ gateway_rx' = Tail(gateway_rx)
    /\ receivers'

\* C31: in every phase of the task the shared voice_state is only ever
\* overwritten with the state of the player's own user, and taking a
\* VoiceStateUpdate of another user leaves voice_state as it was and the task
\* in the phase it was in.
C31_OnlyOwnVoiceState ==
    [][/\ state'.voice_state # state.voice_state => state'.voice_state.own
       /\ OtherUserTaken => state' = state /\ pc' = pc /\ result' = result]_vars

\* Socket::send is called and returns Err from encrypt or from udp.send
SendFailsAtOnce ==
    /\ pc = "run"
    /\ stream.at = "sleep"
    /\ pc' = "returned"
    /\ result'.err = "Rtp"

\* C32 (as the specification states it): a Socket::send that fails leaves
\* sequence and timestamp at the values they had before the call.
C32_FailedSendKeepsCounters ==
    [][SendFailsAtOnce =>
           /\ rtp'.sequence = rtp.sequence
           /\ rtp'.timestamp = rtp.timestamp]_vars

\* C32 (amended): sequence and timestamp count the calls of Socket::send, not
\* the writes completed: a send that fails in encryption or in the UDP write
\* leaves sequence one and timestamp one frame ahead of their values before
\* the call, nothing is written by it, and no datagram is written after the
\* error, which ends run_inner.
C32_FailedSendAdvancesCounters ==
    [][/\ SendFailsAtOnce =>
              /\ rtp'.sequence = (rtp.sequence + 1) % U16
              /\ rtp'.timestamp = Add32(rtp.timestamp, MONO_FRAME_SIZE)
              /\ rtp'.sent = rtp.sent
              /\ wire' = wire
       /\ (pc = "run" /\ stream.at = "udp" /\ pc' = "returned" /\ result'.err = "Rtp") =>
              /\ rtp' = rtp
              /\ rtp.sequence = rtp.calls % U16
              /\ rtp.timestamp = Mul32(rtp.calls, MONO_FRAME_SIZE)
              /\ rtp.calls > rtp.sent
              /\ wire' = wire
       /\ (pc \in {"returned", "closing", "done"} /\ result.err = "Rtp") => wire' = wire]_vars

\* a send has failed after earlier sends completed: the counters are ahead of
\* the datagrams written
C32_Witness ==
    /\ pc = "returned"
    /\ result.err = "Rtp"
    /\ rtp.sent > 0
    /\ rtp.calls = rtp.sent + 1
    /\ rtp.sequence = rtp.calls

\* C33: resume returns Ok(()) only on a step that read Resumed from the new
\* websocket; the end of that websocket's stream does not make it return Ok.
C33_ResumeOkNeedsResumed ==
    [][(/\ fut.at = "resume_wait"
        /\ fut' = IF fut.call = "recv" THEN RecvTop ELSE [fut EXCEPT !.at = "resend"]) =>
           /\ conn'.handshake = "done"
           /\ conn'.open]_vars

\* the Heartbeats written so far, in order
Heartbeats == SelectSeq(outbox, LAMBDA m : m.type = "Heartbeat")

\* C34: every firing of the heartbeat timer writes exactly one Heartbeat with
\* the previous nonce plus 1: the nonces written are 1, 2, 3, ... without
\* gaps, and outside the write itself the Heartbeater's nonce, the one a
\* HeartbeatAck is compared with, is that of the last Heartbeat written.
C34_HeartbeatNonces ==
    /\ \A i \in 1..Len(Heartbeats) : Heartbeats[i].nonce = i
    /\ (fut.at # "heartbeat" /\ out.type # "Panic") => conn.nonce = Len(Heartbeats)

\* C35: after a read of the source timed out during streaming, each of the
\* silence frames after the first is written no sooner than TIMESTEP_LENGTH
\* of clock time after the datagram before it.
C35_StallSilencePaced ==
    [][(/\ burst.stall
        /\ burst.silence >= 1
        /\ burst'.silence = burst.silence + 1) =>
           now >= burst.last + TIMESTEP_LENGTH]_vars

\* C36: silence_frames stays within 0..5 and is above 0 only while
\* waiting_for_source; it grows only on a step that leaves the streaming
\* state, so source() and take_source() called while waiting add nothing.
C36_SilenceFramesBounded ==
    /\ [](/\ streamer.silence_frames \in 0..SilenceBurst
          /\ streamer.silence_frames > 0 => streamer.waiting_for_source)
    /\ [][streamer'.silence_frames > streamer.silence_frames =>
              /\ ~streamer.waiting_for_source
              /\ streamer'.waiting_for_source
              /\ streamer'.silence_frames = SilenceBurst]_vars

\* the source was taken by a Stop while silence frames of a stall were still
\* to be sent
C36_Witness ==
    /\ pc = "run"
    /\ burst.stall
    /\ streamer.waiting_for_source
    /\ streamer.silence_frames \in 1..(SilenceBurst - 1)
    /\ ~has_source(streamer)

\* Player::playing reads the flag between the fetch_xor and the store of a
\* set_playing call
PlayingReadInside ==
    /\ pc = "store"
    /\ pc' = "store"
    /\ command_rx' = command_rx
    /\ ret'.call = "playing"

\* C37: a Player::playing call running inside set_playing(p) returns the
\* value the flag had before the call (true, where the store is reached) or
\* p, and when set_playing returns the flag equals p.
C37_SetPlayingAtomic ==
    [][/\ PlayingReadInside =>
              ret'.result \in {"true", IF OnStatus(result, streamer).playing THEN "true" ELSE "false"}
       /\ (pc \in {"status", "store"} /\ pc' = "run" /\ OnStatus(result, streamer).publish) =>
              state'.playing = OnStatus(result, streamer).playing]_vars

\* C38: the player task never holds two bound UDP sockets at once: when it
\* reconnects after a VoiceServerUpdate the Socket it had is released before
\* the handshake binds the port of the new Ready, so that bind is not refused
\* because the port is in use
C38_OneSocketBound ==
    [][/\ Len(SocketsHeld') <= 1
       /\ (pc = "update" /\ fut.at = "udp") => out'.err # WsError("Io", Errno("AddrInUse"))]_vars

\* a read filled the payload: 1 byte up to the whole payload area
ReadLens == 1..(VOICE_PACKET_MAX - HEADER_LEN)

\* C39: for every payload length a read can return and every mode of the
\* Encryptor, the encryption of the packet completes without a failed
\* assertion and without a slice out of range: the payload and the bytes
\* appended behind it fit the buffer
C39_AppendixFits ==
    (pkt.result # "none" /\ Len(pkt.plain) \in ReadLens) => pkt.result # "Panic"

\* C40: every termination of the player task after the Ready event is
\* preceded by the publication of an Error event; the end of the voice
\* websocket's stream (recv returning None) is no exception
C40_ErrorBeforeExit ==
    [][(/\ pc # "done"
        /\ pc' = "done"
        /\ \E i \in 1..Len(events) : events[i] = Event("Ready"))
           => \E k \in 1..Len(events') : events'[k].kind = "Error"]_vars

====
